---- MODULE Spec2Model ----
(***************************************************************************)
(* A model of the wayne Wayland server library: the byte-by-byte message   *)
(* framer (wayne-core/src/message.rs), the dual-buffer reader              *)
(* (wayne-stream/src/buffer/read.rs), the ancillary fd iterator            *)
(* (wayne-core/src/stream.rs), the advisory lock (wayne-core/src/lock.rs)  *)
(* and the listener bind/drop (wayne-core/src/socket.rs).                  *)
(*                                                                         *)
(* Each subsystem has its own specification (SpecParser, SpecRead, ...);   *)
(* the variables of the other subsystems stay at their initial value.      *)
(***************************************************************************)
EXTENDS Integers, Sequences, FiniteSets, TLC

(***************************************************************************)
(* Bounds of the model.                                                    *)
(***************************************************************************)
\* the longest sequence of frames a client sends to the framer
MaxFrames == 2

\* the length of the data buffer a ReadBuffer is built on
DataCap == 16

\* the length of the control buffer a ReadBuffer is built on
CtrlCap == 20

\* the most bytes the client writes to the socket in one send
MaxChunk == 3

\* the number of file descriptors a client passes in all
MaxFds == 2

\* the longest sequence of frames a client sends to a ReadBuffer
MaxReadFrames == 1

\* the most control records one recvmsg of stream.rs carries
MaxRecords == 2

\* the most descriptors one control record of stream.rs carries
MaxRecordFds == 2

\* the descriptors the peer of stream.rs passes in all
MaxStreamFds == 4

\* the length of the control buffer handed to StreamExt::read
StreamCtrlCap == 56

\* the descriptors the peer of a ClientStream passes in all
MaxClientFds == 2

\* the length of RecvBuffer.control_space given to ClientStream::receive
ClientCtrlCap == 56

\* the processes that contend for one lockfile and one socket path
NumProcs == 2

\* the inode numbers the filesystem hands out
NumInodes == 2

\* the most bytes one chunk handed to a parser carries
MaxFeed == 12

\* the most fds one chunk handed to a parser carries
MaxFeedFds == 1

\* the most calls of parse a driver makes with nothing new in the buffers
MaxRetries == 5

\* the greatest opcode a driver asks the decoder factory for
MaxOpcode == 5

\* the greatest socket number, and the greatest max, a range is asked for
MaxAddress == 3

(***************************************************************************)
(* Sequence and byte helpers.                                              *)
(***************************************************************************)
Min(a, b) == IF a <= b THEN a ELSE b

Max(a, b) == IF a >= b THEN a ELSE b

Take(s, n) == SubSeq(s, 1, Min(n, Len(s)))

Drop(s, n) == SubSeq(s, Min(n, Len(s)) + 1, Len(s))

RECURSIVE Pow(_, _)
Pow(b, e) == IF e = 0 THEN 1 ELSE b * Pow(b, e - 1)

\* to_ne_bytes on a little-endian host: the k bytes of n, least significant first
ToNeBytes(n, k) == [i \in 1..k |-> (n \div Pow(256, i - 1)) % 256]

\* from_ne_bytes on a little-endian host
RECURSIVE FromNeBytes(_)
FromNeBytes(bs) ==
    IF bs = <<>> THEN 0 ELSE Head(bs) + 256 * FromNeBytes(Tail(bs))

Zeros(n) == [i \in 1..n |-> 0]

\* (n + 3) & !3
Pad4(n) == ((n + 3) \div 4) * 4

(***************************************************************************)
(* Frames on the wire.  A frame is what a client encodes: the header with  *)
(* object id, opcode and the size field, the body, zero padding to a       *)
(* multiple of 4.  A size field below 8 denotes a header-only frame.       *)
(***************************************************************************)
Frames ==
    { [object_id |-> 10, opcode |-> 12, size |-> 12, body |-> <<3, 4, 5, 6>>],
      [object_id |-> 42, opcode |-> 69, size |-> 13, body |-> <<1, 2, 3, 4, 5>>],
      [object_id |-> 1, opcode |-> 2, size |-> 8, body |-> <<>>],
      [object_id |-> 7, opcode |-> 3, size |-> 3, body |-> <<>>] }

\* the number of bytes a frame occupies on the wire
PaddedLen(f) == Pad4(Max(f.size, 8))

Encode(f) ==
    LET raw == ToNeBytes(f.object_id, 4) \o ToNeBytes(f.opcode, 2)
                 \o ToNeBytes(f.size, 2) \o f.body
    IN  raw \o Zeros(PaddedLen(f) - Len(raw))

RECURSIVE EncodeAll(_)
EncodeAll(fs) ==
    IF fs = <<>> THEN <<>> ELSE Encode(Head(fs)) \o EncodeAll(Tail(fs))

\* the message a frame denotes
MessageOf(f) == [object_id |-> f.object_id, opcode |-> f.opcode, body |-> f.body]

FrameSeqs == UNION { [1..n -> Frames] : n \in 1..MaxFrames }

ReadFrameSeqs == UNION { [1..n -> Frames] : n \in 1..MaxReadFrames }

VARIABLES
    \* ---- wayne-core/src/message.rs
    state,      \* MessageParser.state: the ParseState
    streaming,  \* whether a MessageStream borrowed from the parser is alive
    bytes,      \* MessageStream.bytes: the unread rest of the chunk
    wire,       \* bytes the client sent that no parse call has been given yet
    sent,       \* the frames the client encoded, in order
    got,        \* the messages the streams yielded, each with the number of
                \* bytes handed to parse when it was yielded
    fed,        \* bytes handed to parse so far
    drip        \* whether every chunk so far was a single byte

parserVars == <<state, streaming, bytes, wire, sent, got, fed, drip>>

VARIABLES
    \* ---- wayne-stream/src/buffer/read.rs: the fields of ReadBuffer
    data_buf,   \* the data buffer: DataCap bytes
    ctrl_buf,   \* the control buffer: what each of its CtrlCap offsets holds
    data_start,
    ctrl_start,
    data_end,
    ctrl_end,   \* Option<usize>
    \* ---- the socket and the process around the ReadBuffer
    sock,       \* the receive queue of the UnixStream: sends of bytes and fds
    nextFd,     \* the next descriptor the client will pass
    received,   \* descriptors installed by receives that returned Ok
    truncated,  \* descriptors installed by receives that returned Err
    handed,     \* descriptors parse_fd returned to the caller, in order
    closed,     \* descriptors closed by the ReadBuffer's destructor
    ret,        \* what the last call on the ReadBuffer returned
    dropped     \* whether the ReadBuffer has been dropped

readVars ==
    <<data_buf, ctrl_buf, data_start, ctrl_start, data_end, ctrl_end, sock,
      nextFd, received, truncated, handed, closed, ret, dropped>>

VARIABLES
    \* ---- wayne-core/src/stream.rs: a ReadData and the Fds iterator over it
    rd_ctrl,    \* the control records recvmsg left behind ReadData.msghdr
    rd_len,     \* ReadData.data.len()
    rd_res,     \* what the last StreamExt::read returned: "none", "Ok", "Err"
    fds_last,   \* Fds.last: 0 for None, else the index of the record
    fds_out,    \* the descriptors the Fds iterator has yielded, in order
    fds_ret,    \* what the last Fds::next returned: "none", "Some", "None"
    rd_next,    \* the next descriptor the peer will pass
    fds_owned   \* per descriptor: the OwnedFd values made of it so far

streamVars ==
    <<rd_ctrl, rd_len, rd_res, fds_last, fds_out, fds_ret, rd_next, fds_owned>>

VARIABLES
    \* ---- the filesystem and the processes of lock.rs and socket.rs
    lock_ino,   \* the inode the lock path resolves to, 0 when it is absent
    sock_owner, \* the process whose socket file is at the socket path, or 0
    pc,         \* per process: where it stands in aquire, bind or drop
    lock_fd,    \* per process: the inode its open lockfile is, 0 for no file
    locked,     \* per process: whether its open lockfile holds the flock
    last,       \* per process: how the last turn of its loop ended
    solo        \* the process whose call has run with every other idle, or 0

lockVars == <<lock_ino, sock_owner, pc, lock_fd, locked, last, solo>>

VARIABLES
    \* ---- wayne-core/src/client.rs: a ClientStream and its RecvBuffer
    cl_wire,     \* the bytes the peer has still to send
    cl_open,     \* whether the peer still has its end of the stream open
    cl_state,    \* ClientStream.parser.state
    cl_messages, \* RecvBuffer.messages
    cl_fds,      \* RecvBuffer.fds
    cl_ret,      \* what the last receive returned
    cl_creds,    \* whether the last recvmsg carried an SCM_CREDENTIALS record
    cl_next      \* the next descriptor the peer will pass

clientVars ==
    <<cl_wire, cl_open, cl_state, cl_messages, cl_fds, cl_ret, cl_creds,
      cl_next>>

VARIABLES
    \* ---- wayne-protocol/src/parse.rs: a parser and the driver around it
    cb_case,     \* what the driver was set up with: parser, input, opcode
    cb_factory,  \* what building the parser returned: Option of a parser
    cb_parser,   \* the parser the next parse call is made on
    cb_twin,     \* the parser of the other side of the law
    cb_in_bytes, \* the bytes of the input not yet handed over
    cb_in_fds,   \* the fds of the input not yet handed over
    cb_bytes,    \* the byte Buffer parse is called with
    cb_fds,      \* the fd Buffer parse is called with
    cb_tbytes,   \* the byte Buffer of the twin
    cb_tfds,     \* the fd Buffer of the twin
    cb_result,   \* what the last parse call returned
    cb_tresult,  \* what the last parse call on the twin returned
    cb_applied,  \* the closures the parse calls have applied, in order
    cb_tapplied, \* the closures the calls on the twin have applied
    cb_calls,    \* the parse calls made
    cb_retries   \* those of them made with nothing new in the buffers

combVars ==
    <<cb_case, cb_factory, cb_parser, cb_twin, cb_in_bytes, cb_in_fds,
      cb_bytes, cb_fds, cb_tbytes, cb_tfds, cb_result, cb_tresult,
      cb_applied, cb_tapplied, cb_calls, cb_retries>>

VARIABLES
    \* ---- wayne-core/src/server.rs try_bind, wayne-server/src/socket.rs bind
    tr_env,      \* whether XDG_RUNTIME_DIR is set
    tr_start,    \* the first socket number of the range
    tr_end,      \* the last socket number of the range
    tr_pc,       \* "idle", "loop" inside the for loop, "done" after return
    tr_address,  \* the loop variable
    tr_tried,    \* the socket numbers bound so far, each with its outcome
    tr_ret       \* what the call returned

rangeVars ==
    <<tr_env, tr_start, tr_end, tr_pc, tr_address, tr_tried, tr_ret>>

VARIABLES
    \* ---- a listener that is being dropped: socket.rs and server.rs
    td_kind,      \* "WaylandSocket" or "Server"
    td_pc,        \* the statement of the destructor that runs next
    td_sock_path, \* whose file is at the socket path: "none", "ours", "other"
    td_lock_path, \* whose file is at the lock path
    td_listening, \* whether the socket still takes connections
    td_sock_fd,   \* whether the listening descriptor is open
    td_lock_fd,   \* whether the lockfile descriptor is open, the lock held
    td_log        \* the system calls of the destructor and how each ended

tdVars ==
    <<td_kind, td_pc, td_sock_path, td_lock_path, td_listening, td_sock_fd,
      td_lock_fd, td_log>>

VARIABLES
    \* ---- a bind of one requested path: sys.rs cpath and bind_socket
    bp_path,      \* the bytes of the requested path
    bp_ret,       \* what the call returned
    bp_bound      \* the name the kernel bound the socket to, if any

pathVars == <<bp_path, bp_ret, bp_bound>>

listenerVars == <<tdVars, pathVars>>

VARIABLES
    \* ---- the ids of client streams: client.rs ClientStream::new
    GENERATOR,    \* the static AtomicU64 of ClientStream::new
    cs_pc,        \* per thread: "idle", or "new" inside ClientStream::new
    cs_before,    \* per thread: the streams made when its call began
    cs_made       \* the streams made, in the order of their fetch_add

idVars == <<GENERATOR, cs_pc, cs_before, cs_made>>

VARIABLES
    \* ---- wayne-buffer/src/init.rs: an InitBuffer over a raw buffer
    ib_raw_len,   \* raw.len()
    init_len,     \* InitBuffer.init_len
    ib_ret        \* the last call: its name, its count, init_len before it,
                  \* and how it ended

bufVars == <<ib_raw_len, init_len, ib_ret>>

VARIABLES
    \* ---- parse_message on one header: wayne-message, wayne-stream, read.rs
    fr_case,      \* the framer, the build profile, the size field, the bytes present
    fr_ret        \* what parse_message did: "new" before the call, else
                  \* "None", "Some" or "panic", with the new data_start and
                  \* the length of the body

framerVars == <<fr_case, fr_ret>>

miscVars == <<idVars, bufVars, framerVars>>

vars ==
    <<parserVars, readVars, streamVars, lockVars, clientVars, combVars,
      rangeVars, listenerVars, miscVars>>

\* the variables each subsystem leaves alone
notParser ==
    <<readVars, streamVars, lockVars, clientVars, combVars, rangeVars,
      listenerVars, miscVars>>

notRead ==
    <<state, streaming, bytes, got, fed, drip, streamVars, lockVars,
      clientVars, combVars, rangeVars,
      listenerVars, miscVars>>

notStream ==
    <<parserVars, readVars, lockVars, clientVars, combVars, rangeVars,
      listenerVars, miscVars>>

notLock ==
    <<parserVars, readVars, streamVars, clientVars, combVars, rangeVars,
      listenerVars, miscVars>>

notClient ==
    <<parserVars, readVars, streamVars, lockVars, combVars, rangeVars,
      listenerVars, miscVars>>

notComb ==
    <<parserVars, readVars, streamVars, lockVars, clientVars, rangeVars,
      listenerVars, miscVars>>

notRange ==
    <<parserVars, readVars, streamVars, lockVars, clientVars, combVars,
      listenerVars, miscVars>>

notListener ==
    <<parserVars, readVars, streamVars, lockVars, clientVars, combVars,
      rangeVars, miscVars>>

notMisc ==
    <<parserVars, readVars, streamVars, lockVars, clientVars, combVars,
      rangeVars, listenerVars>>

notIds == <<notMisc, bufVars, framerVars>>

notBuf == <<notMisc, idVars, framerVars>>

notFramer == <<notMisc, idVars, bufVars>>

notTeardown == <<notListener, pathVars>>

notPath == <<notListener, tdVars>>

(***************************************************************************)
(* wayne-core/src/message.rs: MessageParser and MessageStream              *)
(***************************************************************************)
Empty ==
    [tag |-> "Empty", header |-> <<>>, object_id |-> 0, opcode |-> 0,
     body |-> <<>>, capacity |-> 0]

IncompleteHeader(header) ==
    [tag |-> "IncompleteHeader", header |-> header, object_id |-> 0,
     opcode |-> 0, body |-> <<>>, capacity |-> 0]

\* capacity is body.capacity(): Vec::with_capacity(n) of bytes allocates n
IncompleteBody(object_id, opcode, body, capacity) ==
    [tag |-> "IncompleteBody", header |-> <<>>, object_id |-> object_id,
     opcode |-> opcode, body |-> body, capacity |-> capacity]

None == [some |-> FALSE]

Some(v) == [some |-> TRUE, value |-> v]

\* the size the header announces, clamped to 8 and rounded up to 4 bytes
HeaderSize(header) == Pad4(Max(FromNeBytes(SubSeq(header, 7, 8)), 8))

\* One call of MessageStream::next: the loop runs until it returns.
\* The result is the parse state and the chunk rest it leaves, and the item.
RECURSIVE StreamNextLoop(_, _)
StreamNextLoop(st, bs) ==
    IF bs = <<>>
    THEN [state |-> st, bytes |-> bs, item |-> None]
    ELSE CASE st.tag = "Empty" ->
                StreamNextLoop(IncompleteHeader(<<>>), bs)
           [] st.tag = "IncompleteHeader" ->
                LET cap == Min(8 - Len(st.header), Len(bs))
                    header == st.header \o Take(bs, cap)
                    rest == Drop(bs, cap)
                IN  IF Len(header) < 8
                    THEN [state |-> IncompleteHeader(header), bytes |-> rest,
                          item |-> None]
                    ELSE StreamNextLoop(
                            IncompleteBody(FromNeBytes(SubSeq(header, 1, 4)),
                                           FromNeBytes(SubSeq(header, 5, 6)),
                                           <<>>, HeaderSize(header) - 8),
                            rest)
           [] st.tag = "IncompleteBody" ->
                LET cap == Min(st.capacity - Len(st.body), Len(bs))
                    body == st.body \o Take(bs, cap)
                    rest == Drop(bs, cap)
                IN  IF Len(body) < st.capacity
                    THEN [state |-> IncompleteBody(st.object_id, st.opcode,
                                                   body, st.capacity),
                          bytes |-> rest, item |-> None]
                    ELSE [state |-> Empty, bytes |-> rest,
                          item |-> Some([object_id |-> st.object_id,
                                         opcode |-> st.opcode,
                                         body |-> body])]

\* MessageParser::new, and a client that has encoded some frames
ParserInit ==
    /\ state = Empty
    /\ streaming = FALSE
    /\ bytes = <<>>
    /\ sent \in FrameSeqs
    /\ wire = EncodeAll(sent)
    /\ got = <<>>
    /\ fed = 0
    /\ drip = TRUE

\* MessageParser::parse on the next n bytes of the wire
Parse(n) ==
    /\ ~streaming
    /\ n \in 1..Len(wire)
    /\ streaming' = TRUE
    /\ bytes' = Take(wire, n)
    /\ wire' = Drop(wire, n)
    /\ fed' = fed + n
    /\ drip' = (drip /\ n = 1)
    /\ UNCHANGED <<state, sent, got, notParser>>

\* MessageStream::next yields a message
StreamNextSome ==
    /\ streaming
    /\ LET r == StreamNextLoop(state, bytes)
       IN  /\ r.item.some
           /\ state' = r.state
           /\ bytes' = r.bytes
           /\ got' = Append(got, [message |-> r.item.value, at |-> fed])
    /\ UNCHANGED <<streaming, wire, sent, fed, drip, notParser>>

\* MessageStream::next returns None: the stream is exhausted and dropped
StreamNextNone ==
    /\ streaming
    /\ LET r == StreamNextLoop(state, bytes)
       IN  /\ ~r.item.some
           /\ state' = r.state
           /\ bytes' = <<>>
    /\ streaming' = FALSE
    /\ UNCHANGED <<wire, sent, got, fed, drip, notParser>>

ParserNext ==
    \/ \E n \in 1..(MaxFrames * 16) : Parse(n)
    \/ StreamNextSome
    \/ StreamNextNone

(***************************************************************************)
(* wayne-stream/src/buffer/read.rs: ReadBuffer                             *)
(***************************************************************************)
\* mem::size_of::<libc::cmsghdr>() on a 64-bit Linux host
CmsgHdrSize == 16

\* mem::size_of::<RawFd>()
RawFdSize == 4

\* mem::size_of::<usize>()
UsizeSize == 8

\* libc::SCM_RIGHTS, which the code compares cmsg_level with
SCM_RIGHTS == 1

\* libc::SOL_SOCKET, the cmsg_level of the records the kernel writes
SOL_SOCKET == 1

\* len + USIZE_ALIGN & !USIZE_ALIGN
cmsg_align(len) == ((len + (UsizeSize - 1)) \div UsizeSize) * UsizeSize

\* What a control buffer offset holds: the first byte of a control record
\* stands for the whole cmsghdr and its payload, the other bytes of the
\* record are Inner, and a zeroed byte reads as a cmsghdr with cmsg_len 0.
ZeroByte == [cmsg_len |-> 0, cmsg_level |-> 0, cmsg_type |-> 0, fds |-> <<>>]

Inner == [cmsg_len |-> 0, cmsg_level |-> -1, cmsg_type |-> -1, fds |-> <<>>]

\* the record the kernel writes for the descriptors fds (CMSG_LEN of them)
RightsRecord(fds) ==
    [cmsg_len |-> CmsgHdrSize + RawFdSize * Len(fds), cmsg_level |-> SOL_SOCKET,
     cmsg_type |-> SCM_RIGHTS, fds |-> fds]

\* buf[a..b] of a buffer indexed from 0 and held as a sequence
Slice(buf, a, b) == SubSeq(buf, a + 1, b)

\* the effect of buf.copy_within(a..b, 0) on a sequence
CopyWithinSeq(buf, a, b) ==
    [i \in 1..Len(buf) |-> IF i <= b - a THEN buf[i + a] ELSE buf[i]]

\* the effect of buf.copy_within(a..b, 0) on the control buffer
CopyWithinCtrl(buf, a, b) ==
    [i \in DOMAIN buf |-> IF i < b - a THEN buf[i + a] ELSE buf[i]]

\* ReadBuffer::shift_data_buffer
shift_data_buffer(buf, start, end) ==
    IF start = 0 THEN [buf |-> buf, start |-> start, end |-> end]
    ELSE IF start = end THEN [buf |-> buf, start |-> 0, end |-> 0]
    ELSE [buf |-> CopyWithinSeq(buf, start, end), start |-> 0,
          end |-> end - start]

\* the loop of ReadBuffer::calculate_ctrl_end from the offset e
RECURSIVE WalkCtrlEnd(_, _)
WalkCtrlEnd(buf, e) ==
    IF CtrlCap - e < CmsgHdrSize THEN e
    ELSE IF buf[e].cmsg_len < CmsgHdrSize THEN e
    ELSE WalkCtrlEnd(buf, e + cmsg_align(buf[e].cmsg_len))

\* ReadBuffer::calculate_ctrl_end: the end it returns and stores in ctrl_end
calculate_ctrl_end(buf, start, end) ==
    IF end.some THEN end.value ELSE WalkCtrlEnd(buf, start)

\* ReadBuffer::shift_ctrl_buffer
shift_ctrl_buffer(buf, start, end) ==
    IF start = 0 THEN [buf |-> buf, start |-> start, end |-> end]
    ELSE LET e == calculate_ctrl_end(buf, start, end)
         IN  IF start = e THEN [buf |-> buf, start |-> 0, end |-> Some(0)]
             ELSE [buf |-> CopyWithinCtrl(buf, start, e), start |-> 0,
                   end |-> Some(e - start)]

\* recvmsg(MSG_CMSG_CLOEXEC | MSG_DONTWAIT) on the stream socket with room
\* for dataSpace bytes and ctrlSpace bytes of control data.  It reads from the
\* first queued send as many bytes as fit; the descriptors of that send come
\* with its first byte, as many as the control space holds, and the rest are
\* discarded with MSG_CTRUNC set.
recvmsg(q, dataSpace, ctrlSpace) ==
    IF q = <<>>
    THEN [len |-> -1, data |-> <<>>, fds |-> <<>>, ctrunc |-> FALSE, rest |-> q]
    ELSE IF dataSpace = 0
    THEN [len |-> 0, data |-> <<>>, fds |-> <<>>, ctrunc |-> FALSE, rest |-> q]
    ELSE LET skb == Head(q)
             n == Min(dataSpace, Len(skb.data))
             fdmax == IF ctrlSpace > CmsgHdrSize
                      THEN (ctrlSpace - CmsgHdrSize) \div RawFdSize
                      ELSE 0
             m == Min(Len(skb.fds), fdmax)
             left == Drop(skb.data, n)
         IN  [len |-> n, data |-> Take(skb.data, n), fds |-> Take(skb.fds, m),
              ctrunc |-> m < Len(skb.fds),
              rest |-> IF left = <<>> THEN Tail(q)
                       ELSE <<[data |-> left, fds |-> <<>>]>> \o Tail(q)]

\* the data buffer after the kernel wrote bs at offset at
WriteData(buf, at, bs) ==
    [i \in 1..Len(buf) |->
        IF i > at /\ i <= at + Len(bs) THEN bs[i - at] ELSE buf[i]]

\* the control buffer zeroed from offset at (ctrl.fill(0)) and then holding
\* the record of the received descriptors fds there, when there are any
WriteCtrl(buf, at, fds) ==
    [i \in DOMAIN buf |->
        IF i < at THEN buf[i]
        ELSE IF fds = <<>> THEN ZeroByte
        ELSE IF i = at THEN RightsRecord(fds)
        ELSE IF i < at + RightsRecord(fds).cmsg_len THEN Inner
        ELSE ZeroByte]

\* read_from_stream as a draft that only warns about truncated control data
ReadResultIgnoringCtrunc(r) ==
    IF r.len < 0 THEN "Ok(false)"
    ELSE IF r.len = 0 THEN "Ok(false)"
    ELSE "Ok(true)"

\* what read_from_stream returns for the outcome r of recvmsg
ReadResult(r) ==
    IF r.len < 0 THEN "Ok(false)"
    ELSE IF r.ctrunc THEN "Err"
    ELSE IF r.len = 0 THEN "Ok(false)"
    ELSE "Ok(true)"

\* ReadBuffer::new on buffers of DataCap and CtrlCap zero bytes
ReadBufferNew ==
    /\ data_buf = Zeros(DataCap)
    /\ ctrl_buf = [i \in 0..(CtrlCap - 1) |-> ZeroByte]
    /\ data_start = 0
    /\ ctrl_start = 0
    /\ data_end = 0
    /\ ctrl_end = Some(0)

\* what a call returned: the call, the return value ("Some", "None",
\* "Ok(true)", "Ok(false)", "Err"), the message or descriptor it carries,
\* and whether recvmsg set MSG_CTRUNC during the call
Ret(op, value, item, ctrunc) ==
    [op |-> op, value |-> value, item |-> item, ctrunc |-> ctrunc]

NoRet == Ret("none", "none", None, FALSE)

\* a ReadBuffer before any call, the socket empty
ReadIdle ==
    /\ ReadBufferNew
    /\ sock = <<>>
    /\ nextFd = 1
    /\ received = <<>>
    /\ truncated = <<>>
    /\ handed = <<>>
    /\ closed = <<>>
    /\ ret = NoRet
    /\ dropped = FALSE

\* a MessageParser nobody has called
ParserIdle ==
    /\ state = Empty
    /\ streaming = FALSE
    /\ bytes = <<>>
    /\ got = <<>>
    /\ fed = 0
    /\ drip = TRUE

\* a ReadBuffer on a connected stream whose client has encoded some frames
ReadInit ==
    /\ ReadIdle
    /\ sent \in ReadFrameSeqs
    /\ wire = EncodeAll(sent)
    /\ ParserIdle

\* whether the client is about to write the first byte of a frame
AtFrameStart ==
    \E i \in 0..Len(sent) :
        Len(wire) = Len(EncodeAll(SubSeq(sent, i + 1, Len(sent))))

\* the client writes the next n bytes of its frames to the socket; with the
\* first bytes of a frame it passes k descriptors (sendmsg with one
\* SCM_RIGHTS record).  A send waits until the one before it was received:
\* recvmsg reads one send at a time, so a longer queue shows the ReadBuffer
\* nothing else.
ClientSend(n, k) ==
    /\ sock = <<>>
    /\ n \in 1..Len(wire)
    /\ k > 0 => AtFrameStart
    /\ nextFd + k - 1 <= MaxFds
    /\ sock' = Append(sock, [data |-> Take(wire, n),
                             fds |-> [i \in 1..k |-> nextFd + i - 1]])
    /\ wire' = Drop(wire, n)
    /\ nextFd' = nextFd + k
    /\ UNCHANGED <<data_buf, ctrl_buf, data_start, ctrl_start, data_end,
                   ctrl_end, received, truncated, handed, closed, ret,
                   dropped, sent, notRead>>

\* the unparsed bytes of the data buffer
Window == Slice(data_buf, data_start, data_end)

\* the size field taken as it is, without the floor of 8
message_len_unclamped(data) == FromNeBytes(SubSeq(data, 7, 8))

\* the size field of the header at the front of the unparsed bytes
message_len(data) == Max(FromNeBytes(SubSeq(data, 7, 8)), 8)

\* parse_message without the .min(self.data_end) on the new data_start
parse_message_past_end(data, start, end) ==
    IF Len(data) < 8 THEN [start |-> start, item |-> None]
    ELSE IF Len(data) < message_len(data) THEN [start |-> start, item |-> None]
    ELSE [start |-> start + Pad4(message_len(data)),
          item |-> Some([object_id |-> FromNeBytes(SubSeq(data, 1, 4)),
                         opcode |-> FromNeBytes(SubSeq(data, 5, 6)),
                         body |-> Slice(data, 8, message_len(data))])]

\* ReadBuffer::parse_message: the new data_start and the returned item
parse_message(data, start, end) ==
    IF Len(data) < 8 THEN [start |-> start, item |-> None]
    ELSE IF Len(data) < message_len(data) THEN [start |-> start, item |-> None]
    ELSE [start |-> Min(start + Pad4(message_len(data)), end),
          item |-> Some([object_id |-> FromNeBytes(SubSeq(data, 1, 4)),
                         opcode |-> FromNeBytes(SubSeq(data, 5, 6)),
                         body |-> Slice(data, 8, message_len(data))])]

ParseMessage ==
    /\ ~dropped
    /\ LET r == parse_message(Window, data_start, data_end)
       IN  /\ data_start' = r.start
           /\ ret' = Ret("parse_message",
                         IF r.item.some THEN "Some" ELSE "None", r.item, FALSE)
    /\ UNCHANGED <<data_buf, ctrl_buf, ctrl_start, data_end, ctrl_end, sock,
                   nextFd, received, truncated, handed, closed, dropped, wire,
                   sent, notRead>>

\* the loop of ReadBuffer::parse_fd with the end offset e it computed first:
\* the new ctrl_start and ctrl_end and the descriptor it returns
RECURSIVE ParseFdLoop(_, _, _, _)
ParseFdLoop(buf, start, end, e) ==
    IF e - start < CmsgHdrSize
    THEN [start |-> start, end |-> Some(start), item |-> None]
    ELSE IF buf[start].cmsg_len < CmsgHdrSize
    THEN [start |-> start, end |-> Some(start), item |-> None]
    ELSE IF buf[start].cmsg_level # SCM_RIGHTS
    THEN ParseFdLoop(buf, start + cmsg_align(buf[start].cmsg_len), end, e)
    ELSE [start |-> start + cmsg_align(buf[start].cmsg_len), end |-> end,
          item |-> Some(Head(buf[start].fds))]

\* ReadBuffer::parse_fd
parse_fd(buf, start, end) ==
    ParseFdLoop(buf, start, end, IF end.some THEN end.value ELSE CtrlCap)

ParseFd ==
    /\ ~dropped
    /\ LET r == parse_fd(ctrl_buf, ctrl_start, ctrl_end)
       IN  /\ ctrl_start' = r.start
           /\ ctrl_end' = r.end
           /\ handed' = IF r.item.some THEN Append(handed, r.item.value)
                        ELSE handed
           /\ ret' = Ret("parse_fd",
                         IF r.item.some THEN "Some" ELSE "None", r.item, FALSE)
    /\ UNCHANGED <<data_buf, ctrl_buf, data_start, data_end, sock, nextFd,
                   received, truncated, closed, dropped, wire, sent, notRead>>

\* ReadBuffer::read_from_stream
ReadFromStream ==
    /\ ~dropped
    /\ LET d == shift_data_buffer(data_buf, data_start, data_end)
           c == shift_ctrl_buffer(ctrl_buf, ctrl_start, ctrl_end)
           e == calculate_ctrl_end(c.buf, c.start, c.end)
           r == recvmsg(sock, DataCap - d.end, CtrlCap - e)
           result == ReadResult(r)
       IN  /\ data_buf' = WriteData(d.buf, d.end, r.data)
           /\ ctrl_buf' = WriteCtrl(c.buf, e, r.fds)
           /\ data_start' = d.start
           /\ ctrl_start' = c.start
           /\ data_end' = IF result = "Ok(true)" THEN d.end + r.len ELSE d.end
           /\ ctrl_end' = Some(e)
           /\ sock' = r.rest
           /\ received' = IF result = "Err" THEN received
                          ELSE received \o r.fds
           /\ truncated' = IF result = "Err" THEN truncated \o r.fds
                           ELSE truncated
           /\ ret' = Ret("read_from_stream", result, None, r.ctrunc)
    /\ UNCHANGED <<nextFd, handed, closed, dropped, wire, sent, notRead>>

\* every descriptor ReadBuffer::drop gets from parse_fd and closes
RECURSIVE DrainFds(_, _, _)
DrainFds(buf, start, end) ==
    LET r == parse_fd(buf, start, end)
    IN  IF r.item.some
        THEN <<r.item.value>> \o DrainFds(buf, r.start, r.end)
        ELSE <<>>

\* Drop for ReadBuffer
DropReadBuffer ==
    /\ ~dropped
    /\ dropped' = TRUE
    /\ closed' = DrainFds(ctrl_buf, ctrl_start, ctrl_end)
    /\ ret' = Ret("drop", "none", None, FALSE)
    /\ UNCHANGED <<data_buf, ctrl_buf, data_start, ctrl_start, data_end,
                   ctrl_end, sock, nextFd, received, truncated, handed, wire,
                   sent, notRead>>

(***************************************************************************)
(* wayne/examples/connect.rs: the loop of main over one client stream,     *)
(* read_socket and then parse_message until it returns None                *)
(***************************************************************************)
\* the frames a client sends through the loop, in number and in kind: those
\* of Frames and one that does not fit the data buffer
MaxLoopFrames == 2

Oversize ==
    [object_id |-> 5, opcode |-> 1, size |-> DataCap + 4,
     body |-> [i \in 1..(DataCap - 4) |-> i]]

LoopFrames == Frames \cup {Oversize}

LoopFrameSeqs == UNION { [1..n -> LoopFrames] : n \in 1..MaxLoopFrames }

\* a stream just built, its client about to send some frames
LoopInit ==
    /\ ReadIdle
    /\ sent \in LoopFrameSeqs
    /\ wire = EncodeAll(sent)
    /\ ParserIdle

\* the client writes more of its frames
LoopSend == \E n \in 1..MaxChunk : ClientSend(n, 0)

\* the loop is at stream.read_socket(): at its start, after a read that
\* returned false (continue) and after parse_message returned None
AtRead ==
    \/ ret.op = "none"
    \/ ret.op = "read_from_stream" /\ ret.value = "Ok(false)"
    \/ ret.op = "parse_message" /\ ret.value = "None"

\* the loop is at stream.parse_message()
AtParse ==
    \/ ret.op = "read_from_stream" /\ ret.value = "Ok(true)"
    \/ ret.op = "parse_message" /\ ret.value = "Some"

LoopRead == AtRead /\ ReadFromStream

LoopParse == AtParse /\ ParseMessage

LoopNext == LoopSend \/ LoopRead \/ LoopParse

\* the client keeps sending and the loop keeps running
LoopFair == WF_vars(LoopSend) /\ WF_vars(LoopRead) /\ WF_vars(LoopParse)

ReadNext ==
    \/ \E n \in 1..MaxChunk, k \in 0..MaxFds : ClientSend(n, k)
    \/ ParseMessage
    \/ ParseFd
    \/ ReadFromStream
    \/ DropReadBuffer

(***************************************************************************)
(* wayne-core/src/stream.rs: StreamExt::read, ReadData::fds and Fds::next  *)
(***************************************************************************)
\* libc::SCM_CREDENTIALS
SCM_CREDENTIALS == 2

\* size_of::<libc::ucred>()
UcredSize == 12

\* an SCM_RIGHTS record carrying fds, an SCM_CREDENTIALS record when none
StreamRecord(fds) ==
    IF fds = <<>>
    THEN [cmsg_level |-> SOL_SOCKET, cmsg_type |-> SCM_CREDENTIALS,
          cmsg_len |-> CmsgHdrSize + UcredSize, fds |-> <<>>]
    ELSE [cmsg_level |-> SOL_SOCKET, cmsg_type |-> SCM_RIGHTS,
          cmsg_len |-> CmsgHdrSize + RawFdSize * Len(fds), fds |-> fds]

\* the ancillary data of one receive: per record the number of descriptors
\* it carries, 0 standing for a credentials record
RecordShapes == UNION { [1..n -> 0..MaxRecordFds] : n \in 0..MaxRecords }

RECURSIVE ShapeFds(_)
ShapeFds(shape) ==
    IF shape = <<>> THEN 0 ELSE shape[1] + ShapeFds(Tail(shape))

\* the records the kernel builds for a shape, descriptors numbered from first
RECURSIVE ShapeRecords(_, _)
ShapeRecords(shape, first) ==
    IF shape = <<>> THEN <<>>
    ELSE <<StreamRecord([i \in 1..shape[1] |-> first + i - 1])>>
         \o ShapeRecords(Tail(shape), first + shape[1])

\* CMSG_SPACE summed over the records
RECURSIVE ControlLen(_)
ControlLen(recs) ==
    IF recs = <<>> THEN 0
    ELSE cmsg_align(recs[1].cmsg_len) + ControlLen(Tail(recs))

StreamIdle ==
    /\ rd_ctrl = <<>>
    /\ rd_len = 0
    /\ rd_res = "none"
    /\ fds_last = 0
    /\ fds_out = <<>>
    /\ fds_ret = "none"
    /\ rd_next = 1
    /\ fds_owned = [d \in 1..MaxStreamFds |-> 0]

\* StreamExt::read: one recvmsg of n bytes and the ancillary data of shape;
\* n = 0 is the WouldBlock case, which carries no ancillary data
StreamRead(n, shape) ==
    LET recs == ShapeRecords(shape, rd_next)
        ctrunc == ControlLen(recs) > StreamCtrlCap
    IN  /\ n = 0 => shape = <<>>
        /\ rd_next + ShapeFds(shape) - 1 <= MaxStreamFds
        /\ rd_next' = rd_next + ShapeFds(shape)
        /\ rd_res' = IF ctrunc THEN "Err" ELSE "Ok"
        /\ rd_ctrl' = IF ctrunc THEN <<>> ELSE recs
        /\ rd_len' = IF ctrunc THEN 0 ELSE n
        /\ fds_last' = 0
        /\ fds_out' = <<>>
        /\ fds_ret' = "none"
        /\ UNCHANGED <<fds_owned, notStream>>

\* ReadData::fds: a fresh iterator over the same msghdr
ReadDataFds ==
    /\ rd_res = "Ok"
    /\ fds_last' = 0
    /\ fds_out' = <<>>
    /\ fds_ret' = "none"
    /\ UNCHANGED <<rd_ctrl, rd_len, rd_res, rd_next, fds_owned, notStream>>

\* the loop of Fds::next from the record after last: the index of the record
\* it stops at and the descriptor it returns there, or None at the end
RECURSIVE FdsNextLoop(_, _)
FdsNextLoop(recs, prev) ==
    IF prev + 1 > Len(recs) THEN [last |-> prev, fd |-> None]
    ELSE IF recs[prev + 1].cmsg_type # SCM_RIGHTS
    THEN FdsNextLoop(recs, prev + 1)
    ELSE [last |-> prev + 1, fd |-> Some(recs[prev + 1].fds[1])]

\* the owned values a descriptor is counted up to
MaxOwners == 2

\* OwnedFd::from_raw_fd(raw_fd): one more owned value of the descriptor
from_raw_fd(raw_fd) ==
    [fds_owned EXCEPT ![raw_fd] = Min(@ + 1, MaxOwners)]

\* Fds::next
FdsNext ==
    /\ rd_res = "Ok"
    /\ LET r == FdsNextLoop(rd_ctrl, fds_last)
       IN  /\ fds_last' = r.last
           /\ fds_ret' = IF r.fd.some THEN "Some" ELSE "None"
           /\ fds_out' = IF r.fd.some THEN Append(fds_out, r.fd.value)
                         ELSE fds_out
           /\ fds_owned' = IF r.fd.some THEN from_raw_fd(r.fd.value)
                           ELSE fds_owned
    /\ UNCHANGED <<rd_ctrl, rd_len, rd_res, rd_next, notStream>>

StreamNext ==
    \/ \E n \in 0..MaxChunk, shape \in RecordShapes : StreamRead(n, shape)
    \/ ReadDataFds
    \/ FdsNext

(***************************************************************************)
(* wayne-core/src/lock.rs: AdvisoryLock::aquire, one action per system     *)
(* call, among processes that share the lock path.  Every file is on one   *)
(* device, so two files are the same when their inodes are.  Errors of     *)
(* open and fstat are left out.                                            *)
(***************************************************************************)
Procs == 1..NumProcs

Others(p) == Procs \ {p}

\* inode numbers no path and no open file refers to
FreeInodes ==
    {i \in 1..NumInodes : i # lock_ino /\ \A p \in Procs : lock_fd[p] # i}

LockIdle ==
    /\ lock_ino = 0
    /\ sock_owner = 0
    /\ pc = [p \in Procs |-> "idle"]
    /\ lock_fd = [p \in Procs |-> 0]
    /\ locked = [p \in Procs |-> FALSE]
    /\ last = [p \in Procs |-> "none"]
    /\ solo = 0

\* flock(LOCK_EX | LOCK_NB) that finds the lock taken
FlockAlwaysGranted(p) == FALSE

\* whether another open file holds the flock of the inode p has open
FlockBusy(p) == \E q \in Others(p) : locked[q] /\ lock_fd[q] = lock_fd[p]

\* an identity check that only looks whether the path exists
SameFileIfPresent(p) == lock_ino # 0

\* whether the path resolves to the file p has open: the (st_dev, st_ino)
\* of fs::metadata(path) against those of file.metadata()
SameFile(p) == lock_ino # 0 /\ lock_ino = lock_fd[p]

\* the call begins
AquireCall(p) ==
    /\ pc[p] = "idle"
    /\ pc' = [pc EXCEPT ![p] = "open"]
    /\ last' = [last EXCEPT ![p] = "none"]
    /\ solo' = IF \A q \in Others(p) : pc[q] = "idle" THEN p ELSE 0
    /\ UNCHANGED <<lock_ino, sock_owner, lock_fd, locked, notLock>>

\* File::options().create(true)...open(path)
OpenLock(p, next) ==
    /\ IF lock_ino = 0
       THEN \E i \in FreeInodes :
                /\ lock_ino' = i
                /\ lock_fd' = [lock_fd EXCEPT ![p] = i]
       ELSE /\ lock_fd' = [lock_fd EXCEPT ![p] = lock_ino]
            /\ UNCHANGED lock_ino
    /\ pc' = [pc EXCEPT ![p] = next]
    /\ UNCHANGED <<sock_owner, locked, last, solo, notLock>>

AquireOpen(p) ==
    /\ pc[p] = "open"
    /\ OpenLock(p, "flock")

\* file.try_lock_exclusive()?: on failure the error is returned and the
\* file is closed
TryLock(p, next) ==
    /\ IF FlockBusy(p)
       THEN /\ last' = [last EXCEPT ![p] = "WouldBlock"]
            /\ lock_fd' = [lock_fd EXCEPT ![p] = 0]
            /\ pc' = [pc EXCEPT ![p] = "idle"]
            /\ UNCHANGED locked
       ELSE /\ locked' = [locked EXCEPT ![p] = TRUE]
            /\ pc' = [pc EXCEPT ![p] = next]
            /\ UNCHANGED <<last, lock_fd>>
    /\ UNCHANGED <<lock_ino, sock_owner, solo, notLock>>

AquireFlock(p) ==
    /\ pc[p] = "flock"
    /\ TryLock(p, "stat")

\* fs::metadata(path), file.metadata() and the comparison: on a mismatch
\* the file is closed and the loop starts over
Verify(p, again, next) ==
    /\ IF SameFile(p)
       THEN /\ pc' = [pc EXCEPT ![p] = next]
            /\ UNCHANGED <<lock_fd, locked>>
       ELSE /\ pc' = [pc EXCEPT ![p] = again]
            /\ lock_fd' = [lock_fd EXCEPT ![p] = 0]
            /\ locked' = [locked EXCEPT ![p] = FALSE]
    /\ last' = [last EXCEPT ![p] = IF SameFile(p) THEN "Ok" ELSE "continue"]
    /\ UNCHANGED <<lock_ino, sock_owner, solo, notLock>>

\* a loop that starts over with the file of the last turn still open
AquireVerifyLeaks(p) ==
    /\ pc[p] = "stat"
    /\ pc' = [pc EXCEPT ![p] = IF SameFile(p) THEN "held" ELSE "open"]
    /\ last' = [last EXCEPT ![p] = IF SameFile(p) THEN "Ok" ELSE "continue"]
    /\ UNCHANGED <<lock_ino, sock_owner, lock_fd, locked, solo, notLock>>

AquireVerify(p) ==
    /\ pc[p] = "stat"
    /\ Verify(p, "open", "held")

\* the AdvisoryLock is dropped: its File is closed
DropLock(p) ==
    /\ pc[p] = "held"
    /\ pc' = [pc EXCEPT ![p] = "idle"]
    /\ lock_fd' = [lock_fd EXCEPT ![p] = 0]
    /\ locked' = [locked EXCEPT ![p] = FALSE]
    /\ UNCHANGED <<lock_ino, sock_owner, last, solo, notLock>>

\* the holder removes the lock path, as the destructor of a server does
UnlinkLock(p) ==
    /\ pc[p] = "held"
    /\ lock_ino' = 0
    /\ pc' = [pc EXCEPT ![p] = "closing"]
    /\ UNCHANGED <<sock_owner, lock_fd, locked, last, solo, notLock>>

\* and its lockfile is closed after that
CloseLock(p) ==
    /\ pc[p] = "closing"
    /\ pc' = [pc EXCEPT ![p] = "idle"]
    /\ lock_fd' = [lock_fd EXCEPT ![p] = 0]
    /\ locked' = [locked EXCEPT ![p] = FALSE]
    /\ UNCHANGED <<lock_ino, sock_owner, last, solo, notLock>>

LockNext ==
    \E p \in Procs :
        \/ AquireCall(p)
        \/ AquireOpen(p)
        \/ AquireFlock(p)
        \/ AquireVerify(p)
        \/ DropLock(p)
        \/ UnlinkLock(p)
        \/ CloseLock(p)

(***************************************************************************)
(* wayne-core/src/socket.rs: WaylandSocket::bind and its destructor, one   *)
(* action per system call that touches the socket path or the lock path.   *)
(* listener.rs binds the same way.  The paths are short enough to fit      *)
(* sun_path.                                                               *)
(***************************************************************************)
BindCall(p) ==
    /\ pc[p] = "idle"
    /\ pc' = [pc EXCEPT ![p] = "b_stat"]
    /\ last' = [last EXCEPT ![p] = "none"]
    /\ UNCHANGED <<lock_ino, sock_owner, lock_fd, locked, solo, notLock>>

\* libc::stat(sock_path): whether a file is at the socket path
BindStatSock(p) ==
    /\ pc[p] = "b_stat"
    /\ pc' = [pc EXCEPT ![p] = IF sock_owner # 0 THEN "b_unlink" ELSE "b_open"]
    /\ UNCHANGED <<lock_ino, sock_owner, lock_fd, locked, last, solo, notLock>>

\* libc::unlink(sock_path) of the file stat found; an error is returned
\* when the file is gone by now
BindUnlinkSock(p) ==
    /\ pc[p] = "b_unlink"
    /\ IF sock_owner # 0
       THEN /\ sock_owner' = 0
            /\ pc' = [pc EXCEPT ![p] = "b_open"]
            /\ UNCHANGED last
       ELSE /\ pc' = [pc EXCEPT ![p] = "idle"]
            /\ last' = [last EXCEPT ![p] = "NotFound"]
            /\ UNCHANGED sock_owner
    /\ UNCHANGED <<lock_ino, lock_fd, locked, solo, notLock>>

\* libc::open(lock_path, O_CREAT | O_RDWR)
BindOpen(p) ==
    /\ pc[p] = "b_open"
    /\ OpenLock(p, "b_flock")

\* libc::flock(LOCK_EX | LOCK_NB), returning its error
BindFlock(p) ==
    /\ pc[p] = "b_flock"
    /\ TryLock(p, "b_verify")

\* stat of the lock path, fstat of the lockfile, and the comparison
BindVerify(p) ==
    /\ pc[p] = "b_verify"
    /\ Verify(p, "b_open", "b_bind")

\* socket, bind and listen: bind fails with AddrInUse when a file is at the
\* socket path, and the error return closes the lockfile
BindSocket(p) ==
    /\ pc[p] = "b_bind"
    /\ IF sock_owner # 0
       THEN /\ pc' = [pc EXCEPT ![p] = "idle"]
            /\ last' = [last EXCEPT ![p] = "AddrInUse"]
            /\ lock_fd' = [lock_fd EXCEPT ![p] = 0]
            /\ locked' = [locked EXCEPT ![p] = FALSE]
            /\ UNCHANGED sock_owner
       ELSE /\ sock_owner' = p
            /\ pc' = [pc EXCEPT ![p] = "live"]
            /\ last' = [last EXCEPT ![p] = "Ok"]
            /\ UNCHANGED <<lock_fd, locked>>
    /\ UNCHANGED <<lock_ino, solo, notLock>>

\* socket and bind go through, making the file at the socket path, and
\* libc::listen, or set_nonblocking in server.rs, fails: the error is
\* returned, which closes the socket and the lockfile and unlinks nothing
BindListenFails(p) ==
    /\ pc[p] = "b_bind"
    /\ sock_owner = 0
    /\ sock_owner' = p
    /\ pc' = [pc EXCEPT ![p] = "idle"]
    /\ last' = [last EXCEPT ![p] = "ListenFailed"]
    /\ lock_fd' = [lock_fd EXCEPT ![p] = 0]
    /\ locked' = [locked EXCEPT ![p] = FALSE]
    /\ UNCHANGED <<lock_ino, solo, notLock>>

\* Drop for WaylandSocket: shutdown and unlink(sock_path)
DropUnlinkSock(p) ==
    /\ pc[p] = "live"
    /\ sock_owner' = 0
    /\ pc' = [pc EXCEPT ![p] = "d_lock"]
    /\ UNCHANGED <<lock_ino, lock_fd, locked, last, solo, notLock>>

\* then unlink(lock_path)
DropUnlinkLock(p) ==
    /\ pc[p] = "d_lock"
    /\ lock_ino' = 0
    /\ pc' = [pc EXCEPT ![p] = "d_close"]
    /\ UNCHANGED <<sock_owner, lock_fd, locked, last, solo, notLock>>

\* then the fields are dropped: sock_fd and lock_fd are closed
DropClose(p) ==
    /\ pc[p] = "d_close"
    /\ pc' = [pc EXCEPT ![p] = "idle"]
    /\ lock_fd' = [lock_fd EXCEPT ![p] = 0]
    /\ locked' = [locked EXCEPT ![p] = FALSE]
    /\ UNCHANGED <<lock_ino, sock_owner, last, solo, notLock>>

\* a listening process is killed: its files are closed, its paths stay
Kill(p) ==
    /\ pc[p] = "live"
    /\ pc' = [pc EXCEPT ![p] = "idle"]
    /\ lock_fd' = [lock_fd EXCEPT ![p] = 0]
    /\ locked' = [locked EXCEPT ![p] = FALSE]
    /\ UNCHANGED <<lock_ino, sock_owner, last, solo, notLock>>

BindNext ==
    \E p \in Procs :
        \/ BindCall(p)
        \/ BindStatSock(p)
        \/ BindUnlinkSock(p)
        \/ BindOpen(p)
        \/ BindFlock(p)
        \/ BindVerify(p)
        \/ BindSocket(p)
        \/ BindListenFails(p)
        \/ DropUnlinkSock(p)
        \/ DropUnlinkLock(p)
        \/ DropClose(p)
        \/ Kill(p)

(***************************************************************************)
(* wayne-core/src/client.rs: ClientStream::receive into a RecvBuffer       *)
(***************************************************************************)
\* every message MessageParser::parse yields for a chunk, and the state left
RECURSIVE ParseAll(_, _)
ParseAll(st, bs) ==
    LET r == StreamNextLoop(st, bs)
    IN  IF r.item.some
        THEN LET t == ParseAll(r.state, r.bytes)
             IN  [state |-> t.state, items |-> <<r.item.value>> \o t.items]
        ELSE [state |-> r.state, items |-> <<>>]

\* what the loop over fd_buffer.drain() appends to RecvBuffer.fds: every
\* descriptor of every ScmRights message; ScmCredentials is only logged
RECURSIVE DrainAncillary(_)
DrainAncillary(recs) ==
    IF recs = <<>> THEN <<>>
    ELSE (IF recs[1].cmsg_type = SCM_RIGHTS THEN recs[1].fds ELSE <<>>)
         \o DrainAncillary(Tail(recs))

ClientIdle ==
    /\ cl_wire = <<>>
    /\ cl_open = TRUE
    /\ cl_state = Empty
    /\ cl_messages = <<>>
    /\ cl_fds = <<>>
    /\ cl_ret = "none"
    /\ cl_creds = FALSE
    /\ cl_next = 1

\* ClientStream::new with RecvBuffer::new, the peer about to send some frames
ClientInit ==
    /\ \E fs \in ReadFrameSeqs : cl_wire = EncodeAll(fs)
    /\ cl_open = TRUE
    /\ cl_state = Empty
    /\ cl_messages = <<>>
    /\ cl_fds = <<>>
    /\ cl_ret = "none"
    /\ cl_creds = FALSE
    /\ cl_next = 1

\* receive when recvmsg returns n bytes and the control records of shape.
\* Truncated control data is a hard error of the protocol (the comment on
\* RecvBuffer::with_space): the caller gives the stream up after it.
Received(n, shape) ==
    LET recs == ShapeRecords(shape, cl_next)
        ctrunc == ControlLen(recs) > ClientCtrlCap
        r == ParseAll(cl_state, Take(cl_wire, n))
    IN  /\ cl_ret # "Err"
        /\ cl_next + ShapeFds(shape) - 1 <= MaxClientFds
        /\ cl_next' = cl_next + ShapeFds(shape)
        /\ cl_wire' = Drop(cl_wire, n)
        /\ cl_creds' = (\E i \in DOMAIN shape : shape[i] = 0)
        /\ IF ctrunc
           THEN /\ cl_ret' = "Err"
                /\ UNCHANGED <<cl_state, cl_messages, cl_fds>>
           ELSE /\ cl_ret' = "Ok(true)"
                /\ cl_fds' = cl_fds \o DrainAncillary(recs)
                /\ cl_state' = r.state
                /\ cl_messages' = cl_messages \o r.items
        /\ UNCHANGED <<cl_open, notClient>>

\* ClientStream::receive with data on the socket
ClientReceive(n, shape) ==
    /\ n \in 1..Len(cl_wire)
    /\ Received(n, shape)

\* ClientStream::receive with nothing on the socket: recvmsg fails WouldBlock
ClientReceiveWouldBlock ==
    /\ cl_open
    /\ cl_ret # "Err"
    /\ cl_ret' = "Ok(false)"
    /\ cl_creds' = FALSE
    /\ UNCHANGED <<cl_wire, cl_open, cl_state, cl_messages, cl_fds, cl_next,
                   notClient>>

\* the peer closes its end once it has sent everything
PeerClose ==
    /\ cl_open
    /\ cl_wire = <<>>
    /\ cl_open' = FALSE
    /\ UNCHANGED <<cl_wire, cl_state, cl_messages, cl_fds, cl_ret, cl_creds,
                   cl_next, notClient>>

\* ClientStream::receive at end of stream: recvmsg returns 0 bytes
ClientReceiveEof ==
    /\ ~cl_open
    /\ Received(0, <<>>)

\* RecvBuffer::pop_fd
PopFd ==
    /\ cl_fds # <<>>
    /\ cl_fds' = Tail(cl_fds)
    /\ UNCHANGED <<cl_wire, cl_open, cl_state, cl_messages, cl_ret, cl_creds,
                   cl_next, notClient>>

\* RecvBuffer::pop_message
PopMessage ==
    /\ cl_messages # <<>>
    /\ cl_messages' = Tail(cl_messages)
    /\ UNCHANGED <<cl_wire, cl_open, cl_state, cl_fds, cl_ret, cl_creds,
                   cl_next, notClient>>

ClientNext ==
    \/ \E n \in 1..MaxChunk, shape \in RecordShapes : ClientReceive(n, shape)
    \/ ClientReceiveWouldBlock
    \/ PeerClose
    \/ ClientReceiveEof
    \/ PopFd
    \/ PopMessage

(***************************************************************************)
(* wayne-protocol/src/parse.rs: the parser combinators.  A parser is a     *)
(* record tagged with the struct it is (field k); a closure is a record    *)
(* tagged with what it computes (field f) plus the values it captured.     *)
(***************************************************************************)
\* ParseResult: Ok(out), Err(ParseError::Incomplete(parser)), Err(Failed),
\* each with the two buffers as the call leaves them and the closures the
\* call has applied, in order
Ok(out, bs, fs, ap) ==
    [tag |-> "Done", out |-> out, bytes |-> bs, fds |-> fs, applied |-> ap]

Incomplete(p, bs, fs, ap) ==
    [tag |-> "Incomplete", parser |-> p, bytes |-> bs, fds |-> fs,
     applied |-> ap]

Failed(bs, fs, ap) ==
    [tag |-> "Failed", bytes |-> bs, fds |-> fs, applied |-> ap]

Fd == [k |-> "Fd"]

Pass(item) == [k |-> "Pass", item |-> item]

Consume(nbytes, nfds) == [k |-> "Consume", bytes |-> nbytes, fds |-> nfds]

\* Bytes::new(size): Vec::with_capacity(size) of u8 allocates size
Bytes(size) == [k |-> "Bytes", bytes |-> <<>>, capacity |-> size]

\* MapExt::map
map(p, f) == [k |-> "Map", parser |-> p, map |-> f]

First(m) == [st |-> "First", parser |-> m]

Second(p) == [st |-> "Second", parser |-> p]

Then(st) == [k |-> "Then", state |-> st]

\* ThenExt::then
then(p, f) == Then(First(map(p, f)))

\* OptionExt::some
some(p) == [k |-> "Some", parser |-> p]

\* i32::from_ne_bytes: the two's complement reading of four bytes
I32FromNeBytes(b) ==
    FromNeBytes(Take(b, 3))
    + Pow(256, 3) * (IF b[4] >= 128 THEN b[4] - 256 ELSE b[4])

\* v as u32 of a 32-bit value, signed or not, held as its four bytes
AsU32(v) ==
    LET q == v \div Pow(256, 3)
    IN  ToNeBytes(v - q * Pow(256, 3), 3) \o <<IF q < 0 THEN q + 256 ELSE q>>

\* the f32 nearest to the integer n: 24 bits of significand, ties to even
F32Round(n) ==
    LET a == IF n < 0 THEN -n ELSE n
        hi == a \div Pow(2, 24)
        e == CHOOSE x \in 0..8 :
                /\ hi < Pow(2, x)
                /\ \A d \in 0..(x - 1) : hi >= Pow(2, d)
        g == Pow(2, e)
        q == a \div g
        r == a % g
        up == 2 * r > g \/ (2 * r = g /\ q % 2 = 1)
        m == (IF up THEN q + 1 ELSE q) * g
    IN  IF n < 0 THEN -m ELSE m

\* I24F8::from_bits(bits).to_num() as f32: the number mant / 2^frac
I24F8(bits) == [mant |-> F32Round(bits), frac |-> 8]

\* I28F4::from_bits(bits).to_num() as f32
I28F4(bits) == [mant |-> F32Round(bits), frac |-> 4]

\* String::from_utf8_lossy(&bytes).to_string(): the chars of the bytes, a
\* byte that is no ASCII char read as U+FFFD
Utf8Lossy(bs) ==
    [String |-> [i \in 1..Len(bs) |-> IF bs[i] < 128 THEN bs[i] ELSE 65533]]

\* RawId::from_value(value).to_new()
NewId(value) == [value |-> value]

\* RawId::from_value(value).to_obj()
ObjId(value) == [value |-> value]

u16 == map(Bytes(2), [f |-> "u16"])

i32 == map(Bytes(4), [f |-> "i32"])

u32 == map(Bytes(4), [f |-> "u32"])

array == then(then(u32, [f |-> "array_len"]), [f |-> "array_pad"])

f32 == map(i32, [f |-> "I24F8"])

new_id == map(u32, [f |-> "new_id"])

obj_id == map(u32, [f |-> "obj_id"])

string == map(array, [f |-> "utf8_lossy"])

fd == Fd

(***************************************************************************)
(* The protocol description the generators read: an interface is its       *)
(* requests in XML order, a request its arguments in XML order, an         *)
(* argument its type and the entry values of the enum it is tagged with.   *)
(***************************************************************************)
Arg(ty, enum_kind) == [ty |-> ty, enum_kind |-> enum_kind]

Interface ==
    << <<Arg("uint", Some({0, 1})), Arg("fd", None)>>,
       <<Arg("array", None), Arg("uint", None)>>,
       <<Arg("int", Some({0, 1}))>>,
       <<Arg("int", None)>> >>

\* wayne-protocol-macros: the generated enum's parse(value: u32)
EnumParse(entries, value) ==
    IF \E e \in entries : AsU32(e) = value
    THEN Some(CHOOSE e \in entries : AsU32(e) = value)
    ELSE None

\* wayne-protocol-macros: parse::#ty()#mapper of one argument
ArgLeaf(arg) ==
    LET ty == CASE arg.ty = "int" -> i32
                [] arg.ty = "uint" -> u32
                [] arg.ty = "array" -> array
                [] arg.ty = "fd" -> fd
                [] arg.ty = "fixed" -> f32
                [] arg.ty = "string" -> string
                [] arg.ty = "new_id" -> new_id
                [] arg.ty = "object" -> obj_id
    IN  IF arg.enum_kind.some
        THEN some(map(ty, [f |-> "enum", entries |-> arg.enum_kind.value]))
        ELSE ty

\* the fold taken from the first argument to the last: the last declared
\* argument is parsed first
arg_parser_rev(args, env) ==
    IF args = <<>> THEN Pass([fields |-> env])
    ELSE then(ArgLeaf(args[Len(args)]),
              [f |-> "arg", rest |-> SubSeq(args, 1, Len(args) - 1),
               env |-> env])

\* wayne-protocol-macros: the fold of a request's arguments, from the last
\* to the first, into a chain of then around Pass::new(Self { .. }); env is
\* what the closures built so far have captured
arg_parser(args, env) ==
    IF args = <<>> THEN Pass([fields |-> env])
    ELSE then(ArgLeaf(args[1]),
              [f |-> "arg", rest |-> Tail(args), env |-> env])

\* the closures of parse.rs and of the generated decoders, applied
RECURSIVE Apply(_, _)
Apply(f, v) ==
    CASE f.f = "u16" -> FromNeBytes(v)
      [] f.f = "u32" -> FromNeBytes(v)
      [] f.f = "i32" -> I32FromNeBytes(v)
      [] f.f = "array_len" -> Bytes(v)
      [] f.f = "array_pad" ->
            map(Consume(Pad4(Len(v)) - Len(v), 0), [f |-> "const", c |-> v])
      [] f.f = "const" -> f.c
      [] f.f = "I24F8" -> I24F8(v)
      [] f.f = "new_id" -> NewId(v)
      [] f.f = "obj_id" -> ObjId(v)
      [] f.f = "utf8_lossy" -> Utf8Lossy(v)
      [] f.f = "pass" -> Pass(v)
      [] f.f = "enum" -> EnumParse(f.entries, AsU32(v))
      [] f.f = "arg" -> arg_parser(f.rest, Append(f.env, v))
      [] f.f = "variant" -> [variant |-> f.i, request |-> v]
      [] f.f = "inc" -> v + 1
      [] f.f = "dbl" -> 2 * v
      [] f.f = "comp" -> Apply(f.g, Apply(f.h, v))

\* how an applied closure shows in the log: its tag and, for the closure of
\* a request's chain, the number of arguments it has captured
RECURSIVE Tags(_)
Tags(f) ==
    CASE f.f = "comp" -> Tags(f.h) \o Tags(f.g)
      [] f.f = "arg" -> << <<"arg", Len(f.env)>> >>
      [] OTHER -> << <<f.f, 0>> >>

(***************************************************************************)
(* wayne-protocol/src/parser.rs and parse/*.rs: the parsers behind         *)
(* Builder that the decoders generated by wayne-macros are made of.        *)
(***************************************************************************)
\* wayne-macros: the parser module named for the type of an argument
arg_ty(arg) ==
    CASE arg.ty = "fixed" -> "float"
      [] arg.ty = "object" -> "uint"
      [] arg.ty = "new_id" ->
            IF arg.interface.some THEN "uint" ELSE "custom"
      [] OTHER -> arg.ty

\* the parsers that are made of other parsers
Composite == {"array", "string", "custom", "float"}

\* bytes::Sized<4>::new() under uint::Parser, utils::ArrayParser<4>::new()
\* under int::Parser
SizedNew == [index |-> 0, bytes |-> <<>>]

\* Builder::new(parser) of parser.rs
BuilderOf(p) == [output |-> None, parser |-> p]

\* array::Parser::new()
ArrayNew == [bytes |-> None, len |-> SizedNew, padding |-> 0]

\* custom::Parser::new()
CustomNew ==
    [name |-> BuilderOf(ArrayNew), version |-> BuilderOf(SizedNew),
     value |-> BuilderOf(SizedNew)]

\* #arg_ty::Parser::new() of the composite parsers
ParserNew(ty) ==
    CASE ty = "array" -> ArrayNew
      [] ty = "string" -> ArrayNew
      [] ty = "custom" -> CustomNew
      [] ty = "float" -> SizedNew

\* what a parse of parse/*.rs returns: Some(out) or None, the parser as the
\* call leaves it, the bytes it has not taken
Parsed(out, st, bs) == [out |-> out, st |-> st, bytes |-> bs]

\* uint::Parser::parse over bytes::Sized<4>, which starts over once full
UintParse(st, bs) ==
    LET n == Min(4 - st.index, Len(bs))
        taken == st.bytes \o Take(bs, n)
    IN  IF st.index + n < 4
        THEN Parsed(None, [index |-> st.index + n, bytes |-> taken],
                    Drop(bs, n))
        ELSE Parsed(Some(FromNeBytes(taken)), SizedNew, Drop(bs, n))

\* int::Parser::parse over utils::ArrayParser<4>, which stays full
IntParse(st, bs) ==
    LET n == Min(4 - st.index, Len(bs))
        taken == st.bytes \o Take(bs, n)
    IN  IF st.index + n < 4
        THEN Parsed(None, [index |-> st.index + n, bytes |-> taken],
                    Drop(bs, n))
        ELSE Parsed(Some(I32FromNeBytes(taken)),
                    [index |-> 4, bytes |-> taken], Drop(bs, n))

\* float::Parser::parse once its int parser has run
FloatAfter(r) ==
    IF r.out.some THEN Parsed(Some(I28F4(r.out.value)), r.st, r.bytes)
    ELSE r

FloatParse(st, bs) == FloatAfter(IntParse(st, bs))

\* utils::VecParser::parse
VecParse(st, bs) ==
    LET vec == IF st.vec.some THEN st.vec.value ELSE <<>>
        n == Min(st.len - Len(vec), Len(bs))
        filled == vec \o Take(bs, n)
    IN  IF Len(filled) < st.len
        THEN Parsed(None, [st EXCEPT !.vec = Some(filled)], Drop(bs, n))
        ELSE Parsed(Some(filled), [st EXCEPT !.vec = None], Drop(bs, n))

\* Builder::parse of parser.rs once its parser has run
Built1(r) ==
    [done |-> r.out.some,
     builder |-> [output |-> r.out, parser |-> r.st],
     bytes |-> r.bytes]

\* Builder::parse of parser.rs when it holds its output
BuilderKeeps(b, bs) == [done |-> TRUE, builder |-> b, bytes |-> bs]

\* array::Parser::parse from the padding loop on: vr is what the builder of
\* the bytes returned
ArrayAfterVec(st, vr) ==
    LET k == Min(st.padding, Len(vr.bytes))
    IN  IF ~vr.done
        THEN Parsed(None, [st EXCEPT !.bytes = Some(vr.builder)], vr.bytes)
        ELSE IF st.padding - k > 0
        THEN Parsed(None,
                    [st EXCEPT !.bytes = Some(vr.builder), !.padding = @ - k],
                    Drop(vr.bytes, k))
        ELSE Parsed(Some([boxed |-> vr.builder.output.value]),
                    [st EXCEPT !.padding = 0], Drop(vr.bytes, k))

\* array::Parser::parse from builder.parse on
ArrayAfterLen(st, b, bs) ==
    ArrayAfterVec(st, IF b.output.some THEN BuilderKeeps(b, bs)
                      ELSE Built1(VecParse(b.parser, bs)))

\* array::Parser::parse with no builder pending: lr is what self.len
\* returned
ArrayFresh(st, lr) ==
    IF ~lr.out.some THEN Parsed(None, [st EXCEPT !.len = lr.st], lr.bytes)
    ELSE ArrayAfterLen([st EXCEPT !.len = lr.st,
                                  !.padding = Pad4(lr.out.value)
                                              - lr.out.value],
                       BuilderOf([vec |-> None, len |-> lr.out.value]),
                       lr.bytes)

\* array::Parser::parse
ArrayParse(st, bs) ==
    IF st.bytes.some
    THEN ArrayAfterLen([st EXCEPT !.bytes = None], st.bytes.value, bs)
    ELSE ArrayFresh(st, UintParse(st.len, bs))

\* RawString::from_bytes
RawString(boxed) == [RawString |-> boxed]

\* string::Parser::parse once its array parser has run
StringAfter(r) ==
    IF r.out.some THEN Parsed(Some(RawString(r.out.value)), r.st, r.bytes)
    ELSE r

StringParse(st, bs) == StringAfter(ArrayParse(st, bs))

\* custom::Parser::parse: the name, then the version, then the value, each
\* behind a Builder that is not run again once it holds its output
CustomAfterValue(st, va) ==
    IF ~va.done
    THEN Parsed(None, [st EXCEPT !.value = va.builder], va.bytes)
    ELSE Parsed(Some([name |-> st.name.output.value,
                      version |-> st.version.output.value,
                      value |-> va.builder.output.value]),
                [name |-> [st.name EXCEPT !.output = None],
                 version |-> [st.version EXCEPT !.output = None],
                 value |-> [va.builder EXCEPT !.output = None]],
                va.bytes)

CustomAfterVersion(st, ve) ==
    IF ~ve.done
    THEN Parsed(None, [st EXCEPT !.version = ve.builder], ve.bytes)
    ELSE CustomAfterValue([st EXCEPT !.version = ve.builder],
                          IF st.value.output.some
                          THEN BuilderKeeps(st.value, ve.bytes)
                          ELSE Built1(UintParse(st.value.parser, ve.bytes)))

CustomAfterName(st, n) ==
    IF ~n.done
    THEN Parsed(None, [st EXCEPT !.name = n.builder], n.bytes)
    ELSE CustomAfterVersion([st EXCEPT !.name = n.builder],
                            IF st.version.output.some
                            THEN BuilderKeeps(st.version, n.bytes)
                            ELSE Built1(UintParse(st.version.parser,
                                                  n.bytes)))

CustomParse(st, bs) ==
    CustomAfterName(st, IF st.name.output.some
                        THEN BuilderKeeps(st.name, bs)
                        ELSE Built1(StringParse(st.name.parser, bs)))

\* what ArgParse returns for a composite parser that returned r
CompositeAfter(b, fs, r) ==
    [out |-> r.out, builder |-> [b EXCEPT !.state = r.st],
     bytes |-> r.bytes, fds |-> fs]

\* #arg_ty::Parser::parse of the composite parsers
CompositeParse(b, bs, fs) ==
    CompositeAfter(b, fs,
                   CASE b.arg.ty = "array" -> ArrayParse(b.state, bs)
                     [] b.arg.ty = "string" -> StringParse(b.state, bs)
                     [] b.arg.ty = "custom" -> CustomParse(b.state, bs)
                     [] b.arg.ty = "float" -> FloatParse(b.state, bs))

\* Builder::new(#arg_ty::Parser::new())
BuilderNew(arg) ==
    IF arg_ty(arg) \in Composite
    THEN [output |-> None, arg |-> [arg EXCEPT !.ty = arg_ty(arg)],
          index |-> 0, bytes |-> <<>>, state |-> ParserNew(arg_ty(arg))]
    ELSE [output |-> None, arg |-> [arg EXCEPT !.ty = arg_ty(arg)],
          index |-> 0, bytes |-> <<>>]

\* int::Parser::parse over utils::ArrayParser<4>, uint::Parser::parse over
\* bytes::Sized<4>, fd::Parser::parse
ArgParse(b, bs, fs) ==
    IF b.arg.ty \in Composite THEN CompositeParse(b, bs, fs)
    ELSE IF b.arg.ty = "fd"
    THEN IF fs = <<>> THEN [out |-> None, builder |-> b, bytes |-> bs,
                            fds |-> fs]
         ELSE [out |-> Some(Head(fs)), builder |-> b, bytes |-> bs,
               fds |-> Tail(fs)]
    ELSE LET n == Min(4 - b.index, Len(bs))
             taken == b.bytes \o Take(bs, n)
         IN  IF b.index + n < 4
             THEN [out |-> None,
                   builder |-> [b EXCEPT !.index = @ + n, !.bytes = taken],
                   bytes |-> Drop(bs, n), fds |-> fs]
             ELSE IF b.arg.ty = "int"
             THEN [out |-> Some(I32FromNeBytes(taken)),
                   builder |-> [b EXCEPT !.index = 4, !.bytes = taken],
                   bytes |-> Drop(bs, n), fds |-> fs]
             ELSE [out |-> Some(FromNeBytes(taken)),
                   builder |-> [b EXCEPT !.index = 0, !.bytes = <<>>],
                   bytes |-> Drop(bs, n), fds |-> fs]

\* Builder::parse when its output is empty
BuilderRan(r) ==
    [done |-> r.out.some, ran |-> r.out.some,
     builder |-> [r.builder EXCEPT !.output = r.out],
     bytes |-> r.bytes, fds |-> r.fds]

BuilderRun(b, bs, fs) == BuilderRan(ArgParse(b, bs, fs))

\* Builder::parse
BuilderParse(b, bs, fs) ==
    IF b.output.some
    THEN [done |-> TRUE, ran |-> FALSE, builder |-> b, bytes |-> bs,
          fds |-> fs]
    ELSE BuilderRun(b, bs, fs)

\* the enum's TryFrom<u32>
try_from(entries, value) == IF value \in entries THEN Some(value) ELSE None

\* RawEnum::from_u32 and RawEnum::from_i32: the value and the map over it
RawEnum(arg, value) == [value |-> value, arg |-> arg]

\* RawEnum::build
build(e) ==
    IF e.arg.ty = "int" /\ e.value < 0 THEN None
    ELSE try_from(e.arg.enum_kind.value, e.value)

\* self.#arg_name.finish()?.into() of a built argument
Finish(b) ==
    IF b.arg.enum_kind.some THEN RawEnum(b.arg, b.output.value)
    ELSE b.output.value

\* wayne-macros: #parser::new() of a request
RequestParser(args) ==
    [k |-> "Request", builders |-> [i \in 1..Len(args) |-> BuilderNew(args[i])]]

\* wayne-macros: the generated parse of a request, from builder i on
RECURSIVE RequestParseFrom(_, _, _, _, _)
RequestParseFrom(bl, i, bs, fs, ap) ==
    IF i > Len(bl)
    THEN Ok([fields |-> [j \in 1..Len(bl) |-> Finish(bl[j])]], bs, fs, ap)
    ELSE LET r == BuilderParse(bl[i], bs, fs)
             bl2 == [bl EXCEPT ![i] = r.builder]
             ap2 == IF r.ran THEN Append(ap, <<"builder", i>>) ELSE ap
         IN  IF r.done THEN RequestParseFrom(bl2, i + 1, r.bytes, r.fds, ap2)
             ELSE Incomplete([k |-> "Request", builders |-> bl2], r.bytes,
                             r.fds, ap2)

(***************************************************************************)
(* Parser::parse of every parser above.                                    *)
(***************************************************************************)
\* Then::parse once its state has been taken and run: r is what the half
\* in that state returned
ThenAfterFirstRestarts(first, r) ==
    CASE r.tag = "Done" -> Incomplete(Then(first), r.bytes, r.fds, r.applied)
      [] r.tag = "Incomplete" ->
            Incomplete(Then(First(r.parser)), r.bytes, r.fds, r.applied)
      [] r.tag = "Failed" -> r

ThenAfterFirst(first, r) ==
    CASE r.tag = "Done" ->
            Incomplete(Then(Second(r.out)), r.bytes, r.fds, r.applied)
      [] r.tag = "Incomplete" ->
            Incomplete(Then(First(r.parser)), r.bytes, r.fds, r.applied)
      [] r.tag = "Failed" -> r

ThenAfterSecond(r) ==
    CASE r.tag = "Done" -> r
      [] r.tag = "Incomplete" ->
            Incomplete(Then(Second(r.parser)), r.bytes, r.fds, r.applied)
      [] r.tag = "Failed" -> r

\* Map::parse once its parser has run
MapAppliesOnIncomplete(p, r) ==
    CASE r.tag = "Done" ->
            Ok(Apply(p.map, r.out), r.bytes, r.fds, r.applied \o Tags(p.map))
      [] r.tag = "Incomplete" ->
            Incomplete(map(r.parser, p.map), r.bytes, r.fds,
                       r.applied \o Tags(p.map))
      [] r.tag = "Failed" -> r

MapAfter(p, r) ==
    CASE r.tag = "Done" ->
            Ok(Apply(p.map, r.out), r.bytes, r.fds, r.applied \o Tags(p.map))
      [] r.tag = "Incomplete" ->
            Incomplete(map(r.parser, p.map), r.bytes, r.fds, r.applied)
      [] r.tag = "Failed" -> r

\* Some::parse once its parser has run
SomeWaitsOnNone(r) ==
    CASE r.tag = "Done" ->
            IF r.out.some THEN Ok(r.out.value, r.bytes, r.fds, r.applied)
            ELSE Incomplete(some(Pass(r.out)), r.bytes, r.fds, r.applied)
      [] r.tag = "Incomplete" ->
            Incomplete(some(r.parser), r.bytes, r.fds, r.applied)
      [] r.tag = "Failed" -> r

SomeAfter(r) ==
    CASE r.tag = "Done" ->
            IF r.out.some THEN Ok(r.out.value, r.bytes, r.fds, r.applied)
            ELSE Failed(r.bytes, r.fds, r.applied)
      [] r.tag = "Incomplete" ->
            Incomplete(some(r.parser), r.bytes, r.fds, r.applied)
      [] r.tag = "Failed" -> r

FdParse(p, bs, fs) ==
    IF fs = <<>> THEN Incomplete(p, bs, fs, <<>>)
    ELSE Ok(Head(fs), bs, Tail(fs), <<>>)

\* a Consume that takes nothing and returns at once
ConsumeNothing(p, bs, fs) == Ok(<<0, 0>>, bs, fs, <<>>)

ConsumeParse(p, bs, fs) ==
    LET nb == Min(p.bytes, Len(bs))
        nf == IF nb < p.bytes THEN 0 ELSE Min(p.fds, Len(fs))
    IN  IF nb < p.bytes \/ nf < p.fds
        THEN Incomplete(Consume(p.bytes - nb, p.fds - nf), Drop(bs, nb),
                        Drop(fs, nf), <<>>)
        ELSE Ok(<<0, 0>>, Drop(bs, nb), Drop(fs, nf), <<>>)

BytesParse(p, bs, fs) ==
    LET n == Min(p.capacity - Len(p.bytes), Len(bs))
        taken == p.bytes \o Take(bs, n)
    IN  IF Len(taken) < p.capacity
        THEN Incomplete([p EXCEPT !.bytes = taken], Drop(bs, n), fs, <<>>)
        ELSE Ok(taken, Drop(bs, n), fs, <<>>)

\* bytes::Sized::<LEN>::new() of parse/bytes.rs
Sized(len) == [k |-> "Sized", len |-> len, index |-> 0, bytes |-> <<>>]

\* bytes::Sized::parse: LEN bytes into the array, the index back to 0 once
\* they are returned
SizedParse(p, bs, fs) ==
    LET n == Min(p.len - p.index, Len(bs))
        taken == p.bytes \o Take(bs, n)
    IN  IF p.index + n < p.len
        THEN Incomplete([p EXCEPT !.index = @ + n, !.bytes = taken],
                        Drop(bs, n), fs, <<>>)
        ELSE Ok(taken, Drop(bs, n), fs, <<>>)

\* a & b of two usize
RECURSIVE BitAnd(_, _)
BitAnd(a, b) ==
    IF a = 0 \/ b = 0 THEN 0
    ELSE (a % 2) * (b % 2) + 2 * BitAnd(a \div 2, b \div 2)

\* PadExt::pad: pad.saturating_sub(1) is kept
pad(p, n) ==
    [k |-> "Pad", out |-> None, count |-> 0,
     pad |-> IF n >= 1 THEN n - 1 ELSE 0, parser |-> p]

\* (self.count + self.pad) & !self.pad
PaddedCount(p) == (p.count + p.pad) - BitAnd(p.count + p.pad, p.pad)

\* Pad::parse from the padding loop on, out being the local that holds the
\* output: it is dropped by the return of Incomplete
PadLoop(p, out, bs, fs, ap) ==
    LET n == Min(PaddedCount(p) - p.count, Len(bs))
    IN  IF p.count + n < PaddedCount(p)
        THEN Incomplete([p EXCEPT !.count = @ + n], Drop(bs, n), fs, ap)
        ELSE Ok(out, Drop(bs, n), fs, ap)

\* Pad::parse once self.parser has run on the counting buffer: r is what it
\* returned, having taken bs down to r.bytes
PadAfter(p, bs, r) ==
    CASE r.tag = "Done" ->
            PadLoop([p EXCEPT !.count = @ + Len(bs) - Len(r.bytes),
                              !.parser = Sized(@.len)],
                    r.out, r.bytes, r.fds,
                    r.applied \o << <<"inner", 0>>, <<"inner_done", 0>> >>)
      [] r.tag = "Incomplete" ->
            Incomplete([p EXCEPT !.count = @ + Len(bs) - Len(r.bytes),
                                 !.parser = r.parser],
                       r.bytes, r.fds, r.applied \o << <<"inner", 0>> >>)
      [] r.tag = "Failed" -> r

RECURSIVE ParseP(_, _, _)
ParseP(p, bs, fs) ==
    CASE p.k = "Fd" -> FdParse(p, bs, fs)
      [] p.k = "Pass" -> Ok(p.item, bs, fs, <<>>)
      [] p.k = "Consume" -> ConsumeParse(p, bs, fs)
      [] p.k = "Bytes" -> BytesParse(p, bs, fs)
      [] p.k = "Map" -> MapAfter(p, ParseP(p.parser, bs, fs))
      [] p.k = "Then" ->
            IF p.state.st = "First"
            THEN ThenAfterFirst(p.state, ParseP(p.state.parser, bs, fs))
            ELSE ThenAfterSecond(ParseP(p.state.parser, bs, fs))
      [] p.k = "Some" -> SomeAfter(ParseP(p.parser, bs, fs))
      [] p.k = "Request" -> RequestParseFrom(p.builders, 1, bs, fs, <<>>)
      [] p.k = "Sized" -> SizedParse(p, bs, fs)
      [] p.k = "Pad" ->
            IF p.out.some
            THEN PadLoop([p EXCEPT !.out = None], p.out.value, bs, fs, <<>>)
            ELSE PadAfter(p, bs, ParseP(p.parser, bs, fs))

(***************************************************************************)
(* A driver of the parsers: it builds a parser, then hands it chunks of    *)
(* the input through the two buffers, calling parse after each, and calls  *)
(* the parser an Incomplete returned again.  Beside the parser runs its    *)
(* twin, the other side of the law the case is about, on the same chunks.  *)
(***************************************************************************)
\* the combinator cases: the law, the parser, its twin, the input
Case(law, p, twin, bs, fs) ==
    [law |-> law, parser |-> p, twin |-> twin, bytes |-> bs, fds |-> fs,
     ver |-> "parse", opcode |-> 0, vals |-> <<>>]

Cases ==
    << Case("leaf", Bytes(2), Bytes(2), <<1, 2>>, <<>>),
       Case("leaf", Consume(2, 1), Consume(2, 1), <<1, 2>>, <<7>>),
       Case("leaf", u32, u32, <<2, 1, 0, 0>>, <<>>),
       Case("leaf", array, array, <<2, 0, 0, 0, 1, 2, 0, 0>>, <<>>),
       Case("leaf", array, array, <<0, 0, 0, 0>>, <<>>),
       Case("then_pass", then(u16, [f |-> "pass"]), u16, <<1, 2>>, <<>>),
       Case("then_pass", then(fd, [f |-> "pass"]), fd, <<>>, <<7>>),
       Case("then_pass", then(Pass(5), [f |-> "pass"]), Pass(5), <<1>>,
            <<>>),
       Case("then_pass", then(some(Pass(None)), [f |-> "pass"]),
            some(Pass(None)), <<1>>, <<>>),
       Case("some", some(Pass(Some(5))), Pass(Some(5)), <<1>>, <<>>),
       Case("some", some(Pass(None)), Pass(None), <<1>>, <<>>),
       Case("some", some(map(u16, [f |-> "enum", entries |-> {0, 1}])),
            map(u16, [f |-> "enum", entries |-> {0, 1}]), <<1, 0>>, <<>>),
       Case("some", some(map(u16, [f |-> "enum", entries |-> {0, 1}])),
            map(u16, [f |-> "enum", entries |-> {0, 1}]), <<2, 0>>, <<>>),
       Case("some", some(some(Pass(None))), some(Pass(None)), <<1>>, <<>>),
       Case("map", map(map(Bytes(2), [f |-> "u16"]), [f |-> "inc"]),
            map(Bytes(2), [f |-> "comp", g |-> [f |-> "inc"],
                           h |-> [f |-> "u16"]]), <<1, 2>>, <<>>),
       Case("map", map(map(fd, [f |-> "inc"]), [f |-> "dbl"]),
            map(fd, [f |-> "comp", g |-> [f |-> "dbl"],
                     h |-> [f |-> "inc"]]), <<>>, <<7>>),
       Case("map", map(map(some(Pass(None)), [f |-> "inc"]), [f |-> "dbl"]),
            map(some(Pass(None)), [f |-> "comp", g |-> [f |-> "dbl"],
                                   h |-> [f |-> "inc"]]), <<1>>, <<>>) >>

\* the values a client may encode for an argument
ArgValues(arg) ==
    CASE arg.ty = "int" -> {-1, 0, 2}
      [] arg.ty = "uint" -> {0, 1, 2}
      [] arg.ty = "array" -> {<<>>, <<1, 2>>}
      [] arg.ty = "fd" -> {7}
      [] arg.ty = "object" -> {3}
      [] arg.ty = "string" -> {<<>>, <<104, 0>>, <<104, 105, 33, 0>>}
      [] arg.ty = "fixed" -> {0, 1, 256, -256, 384, 16777217}
      [] arg.ty = "new_id" ->
            IF arg.interface.some THEN {3}
            ELSE {[name |-> <<119, 0>>, version |-> 1, value |-> 3]}

RECURSIVE ArgTuples(_)
ArgTuples(args) ==
    IF args = <<>> THEN {<<>>}
    ELSE {<<v>> \o t : v \in ArgValues(args[1]), t \in ArgTuples(Tail(args))}

\* the wire encoding of the arguments of a request: body bytes and fds
RECURSIVE EncodeArgs(_, _)
EncodeArgs(args, vals) ==
    IF args = <<>> THEN [bytes |-> <<>>, fds |-> <<>>]
    ELSE LET rest == EncodeArgs(Tail(args), Tail(vals))
             v == vals[1]
         IN  CASE args[1].ty = "int" ->
                    [rest EXCEPT !.bytes = AsU32(v) \o @]
               [] args[1].ty = "uint" ->
                    [rest EXCEPT !.bytes = ToNeBytes(v, 4) \o @]
               [] args[1].ty = "array" ->
                    [rest EXCEPT !.bytes = ToNeBytes(Len(v), 4) \o v
                                    \o Zeros(Pad4(Len(v)) - Len(v)) \o @]
               [] args[1].ty = "fd" -> [rest EXCEPT !.fds = <<v>> \o @]
               [] args[1].ty = "object" ->
                    [rest EXCEPT !.bytes = ToNeBytes(v, 4) \o @]
               [] args[1].ty = "string" ->
                    [rest EXCEPT !.bytes = ToNeBytes(Len(v), 4) \o v
                                    \o Zeros(Pad4(Len(v)) - Len(v)) \o @]
               [] args[1].ty = "fixed" ->
                    [rest EXCEPT !.bytes = AsU32(v) \o @]
               [] args[1].ty = "new_id" ->
                    IF args[1].interface.some
                    THEN [rest EXCEPT !.bytes = ToNeBytes(v, 4) \o @]
                    ELSE [rest EXCEPT !.bytes =
                            ToNeBytes(Len(v.name), 4) \o v.name
                            \o Zeros(Pad4(Len(v.name)) - Len(v.name))
                            \o ToNeBytes(v.version, 4)
                            \o ToNeBytes(v.value, 4) \o @]

\* the requests wayne-macros is modelled for: those without an array
Built(args) == \A i \in 1..Len(args) : args[i].ty # "array"

\* the opcodes of the generated match, one per request in XML order
opcodesFromOne == [i \in 1..Len(Interface) |-> i]

opcodes == [i \in 1..Len(Interface) |-> i - 1]

\* #request_enum::parser(opcode) of wayne-protocol-macros and
\* #parser_enum::new(opcode) of wayne-macros
parser(ver, opcode) ==
    IF \E i \in 1..Len(Interface) : opcodes[i] = opcode
    THEN LET i == CHOOSE i \in 1..Len(Interface) : opcodes[i] = opcode
         IN  Some(map(IF ver = "then" THEN arg_parser(Interface[i], <<>>)
                      ELSE RequestParser(Interface[i]),
                      [f |-> "variant", i |-> i - 1]))
    ELSE None

\* the request cases: a generator, an opcode, the arguments the client
\* encodes when the opcode is one of a request
RequestCase(ver, opcode, vals) ==
    [law |-> "request", parser |-> Fd, twin |-> Fd,
     bytes |-> IF opcode < Len(Interface)
               THEN EncodeArgs(Interface[opcode + 1], vals).bytes ELSE <<>>,
     fds |-> IF opcode < Len(Interface)
             THEN EncodeArgs(Interface[opcode + 1], vals).fds ELSE <<>>,
     ver |-> ver, opcode |-> opcode, vals |-> vals]

\* an argument as the XML gives it: allow-null and interface beside the
\* type and the enum
ArgOf(ty, allow_null, interface) ==
    [ty |-> ty, enum_kind |-> None, allow_null |-> allow_null,
     interface |-> interface]

\* the arguments whose decoders are run side by side
DecoderArgs ==
    { ArgOf("string", TRUE, None), ArgOf("string", FALSE, None),
      ArgOf("array", TRUE, None), ArgOf("array", FALSE, None),
      ArgOf("new_id", FALSE, Some("wl_callback")),
      ArgOf("new_id", FALSE, None),
      ArgOf("fixed", FALSE, None) }

\* the first bytes of what the client sends after the request
Trailer == <<9, 9, 9, 9>>

\* the decoder cases: a request of one argument, the decoder
\* wayne-protocol-macros generates for it as the parser and the one
\* wayne-macros generates as the twin, on what a client encodes
DecoderCase(arg, val) ==
    [law |-> "decoder", parser |-> arg_parser(<<arg>>, <<>>),
     twin |-> RequestParser(<<arg>>),
     bytes |-> EncodeArgs(<<arg>>, <<val>>).bytes \o Trailer, fds |-> <<>>,
     ver |-> "both", opcode |-> 0, vals |-> <<val>>, arg |-> arg]

\* no parser built yet, and no parse call made yet on the one built
Unbuilt == [tag |-> "new"]

NoResult == [tag |-> "none"]

\* what the driver keeps of a ParseResult
Kept(r) == IF r.tag = "Done" THEN [tag |-> "Done", out |-> r.out]
           ELSE [tag |-> r.tag]

CombIdle ==
    /\ cb_case = Case("idle", Fd, Fd, <<>>, <<>>)
    /\ cb_factory = None
    /\ cb_parser = Fd
    /\ cb_twin = Fd
    /\ cb_in_bytes = <<>>
    /\ cb_in_fds = <<>>
    /\ cb_bytes = <<>>
    /\ cb_fds = <<>>
    /\ cb_tbytes = <<>>
    /\ cb_tfds = <<>>
    /\ cb_result = Unbuilt
    /\ cb_tresult = Unbuilt
    /\ cb_applied = <<>>
    /\ cb_tapplied = <<>>
    /\ cb_calls = 0
    /\ cb_retries = 0

CombInit ==
    /\ \/ \E i \in 1..Len(Cases) : cb_case = Cases[i]
       \/ \E ver \in {"then", "builder"}, opcode \in 0..MaxOpcode :
            IF opcode < Len(Interface)
            THEN /\ ver = "builder" => Built(Interface[opcode + 1])
                 /\ \E vals \in ArgTuples(Interface[opcode + 1]) :
                        cb_case = RequestCase(ver, opcode, vals)
            ELSE cb_case = RequestCase(ver, opcode, <<>>)
    /\ cb_factory = None
    /\ cb_parser = Fd
    /\ cb_twin = Fd
    /\ cb_in_bytes = cb_case.bytes
    /\ cb_in_fds = cb_case.fds
    /\ cb_bytes = <<>>
    /\ cb_fds = <<>>
    /\ cb_tbytes = <<>>
    /\ cb_tfds = <<>>
    /\ cb_result = Unbuilt
    /\ cb_tresult = Unbuilt
    /\ cb_applied = <<>>
    /\ cb_tapplied = <<>>
    /\ cb_calls = 0
    /\ cb_retries = 0

\* the arguments whose decoders are run for what they take from the buffers
ExactArgs ==
    { ArgOf("int", FALSE, None), ArgOf("uint", FALSE, None),
      ArgOf("object", FALSE, Some("wl_surface")),
      ArgOf("new_id", FALSE, Some("wl_callback")),
      ArgOf("fixed", FALSE, None), ArgOf("string", FALSE, None),
      ArgOf("array", FALSE, None), ArgOf("fd", FALSE, None) }

\* the fd the client sends after the request
TrailerFds == <<8>>

\* the exact cases: the decoder of parse.rs for one argument as the parser
\* and the request decoder wayne-macros generates for it as the twin, on
\* what a client encodes followed by more
ExactCase(arg, val) ==
    [law |-> "exact", parser |-> ArgLeaf(arg), twin |-> RequestParser(<<arg>>),
     bytes |-> EncodeArgs(<<arg>>, <<val>>).bytes \o Trailer,
     fds |-> EncodeArgs(<<arg>>, <<val>>).fds \o TrailerFds,
     ver |-> "both", opcode |-> 0, vals |-> <<val>>, arg |-> arg]

ExactInit ==
    /\ \E arg \in ExactArgs : \E val \in ArgValues(arg) :
            cb_case = ExactCase(arg, val)
    /\ cb_factory = None
    /\ cb_parser = Fd
    /\ cb_twin = Fd
    /\ cb_in_bytes = cb_case.bytes
    /\ cb_in_fds = cb_case.fds
    /\ cb_bytes = <<>>
    /\ cb_fds = <<>>
    /\ cb_tbytes = <<>>
    /\ cb_tfds = <<>>
    /\ cb_result = Unbuilt
    /\ cb_tresult = Unbuilt
    /\ cb_applied = <<>>
    /\ cb_tapplied = <<>>
    /\ cb_calls = 0
    /\ cb_retries = 0

\* the sizes of the inner parser and the paddings pad is run with
MaxSized == 5

MaxPad == 4

\* what the client sends, each byte a different one
PadInput == <<1, 2, 3, 4, 5, 6, 7, 8>>

\* the pad cases: pad(p, n) as the parser and p as its twin
PadCase(len, n) == Case("pad", pad(Sized(len), n), Sized(len), PadInput, <<>>)

PadInit ==
    /\ \E len \in 1..MaxSized, n \in 1..MaxPad : cb_case = PadCase(len, n)
    /\ cb_factory = None
    /\ cb_parser = Fd
    /\ cb_twin = Fd
    /\ cb_in_bytes = cb_case.bytes
    /\ cb_in_fds = cb_case.fds
    /\ cb_bytes = <<>>
    /\ cb_fds = <<>>
    /\ cb_tbytes = <<>>
    /\ cb_tfds = <<>>
    /\ cb_result = Unbuilt
    /\ cb_tresult = Unbuilt
    /\ cb_applied = <<>>
    /\ cb_tapplied = <<>>
    /\ cb_calls = 0
    /\ cb_retries = 0

DecodersInit ==
    /\ \E arg \in DecoderArgs : \E val \in ArgValues(arg) :
            cb_case = DecoderCase(arg, val)
    /\ cb_factory = None
    /\ cb_parser = Fd
    /\ cb_twin = Fd
    /\ cb_in_bytes = cb_case.bytes
    /\ cb_in_fds = cb_case.fds
    /\ cb_bytes = <<>>
    /\ cb_fds = <<>>
    /\ cb_tbytes = <<>>
    /\ cb_tfds = <<>>
    /\ cb_result = Unbuilt
    /\ cb_tresult = Unbuilt
    /\ cb_applied = <<>>
    /\ cb_tapplied = <<>>
    /\ cb_calls = 0
    /\ cb_retries = 0

\* the driver builds the parser of its case: a combinator expression, or
\* what the generated factory returns for the opcode
Construct ==
    /\ cb_result = Unbuilt
    /\ cb_case.law # "idle"
    /\ cb_factory' = IF cb_case.law = "request"
                     THEN parser(cb_case.ver, cb_case.opcode)
                     ELSE Some(cb_case.parser)
    /\ cb_parser' = IF cb_factory'.some THEN cb_factory'.value ELSE cb_parser
    /\ cb_twin' = IF cb_case.law = "request" THEN cb_parser'
                  ELSE cb_case.twin
    /\ cb_result' = NoResult
    /\ cb_tresult' = NoResult
    /\ UNCHANGED <<cb_case, cb_in_bytes, cb_in_fds, cb_bytes, cb_fds,
                   cb_tbytes, cb_tfds, cb_applied, cb_tapplied, cb_calls,
                   cb_retries>>
    /\ UNCHANGED notComb

Pending(res) == res.tag \in {"none", "Incomplete"}

\* n more bytes and m more fds reach the buffers and every parser that has
\* not finished is called once
Call(n, m) ==
    /\ cb_factory.some
    /\ Pending(cb_result) \/ Pending(cb_tresult)
    /\ n <= Len(cb_in_bytes)
    /\ m <= Len(cb_in_fds)
    /\ LET r == ParseP(cb_parser, cb_bytes \o Take(cb_in_bytes, n),
                       cb_fds \o Take(cb_in_fds, m))
           t == ParseP(cb_twin, cb_tbytes \o Take(cb_in_bytes, n),
                       cb_tfds \o Take(cb_in_fds, m))
       IN  /\ IF Pending(cb_result)
              THEN /\ cb_parser' = IF r.tag = "Incomplete" THEN r.parser
                                   ELSE cb_parser
                   /\ cb_bytes' = r.bytes
                   /\ cb_fds' = r.fds
                   /\ cb_result' = Kept(r)
                   /\ cb_applied' = cb_applied \o r.applied
              ELSE /\ cb_bytes' = cb_bytes \o Take(cb_in_bytes, n)
                   /\ cb_fds' = cb_fds \o Take(cb_in_fds, m)
                   /\ UNCHANGED <<cb_parser, cb_result, cb_applied>>
           /\ IF Pending(cb_tresult)
              THEN /\ cb_twin' = IF t.tag = "Incomplete" THEN t.parser
                                 ELSE cb_twin
                   /\ cb_tbytes' = t.bytes
                   /\ cb_tfds' = t.fds
                   /\ cb_tresult' = Kept(t)
                   /\ cb_tapplied' = cb_tapplied \o t.applied
              ELSE /\ cb_tbytes' = cb_tbytes \o Take(cb_in_bytes, n)
                   /\ cb_tfds' = cb_tfds \o Take(cb_in_fds, m)
                   /\ UNCHANGED <<cb_twin, cb_tresult, cb_tapplied>>
    /\ cb_in_bytes' = Drop(cb_in_bytes, n)
    /\ cb_in_fds' = Drop(cb_in_fds, m)
    /\ cb_calls' = cb_calls + 1
    /\ UNCHANGED <<cb_case, cb_factory>>
    /\ UNCHANGED notComb

\* a chunk arrives and parse is called on it
Feed(n, m) ==
    /\ n + m >= 1
    /\ Call(n, m)
    /\ UNCHANGED cb_retries

\* parse is called again with nothing new in the buffers
Retry ==
    /\ cb_retries < MaxRetries
    /\ Call(0, 0)
    /\ cb_retries' = cb_retries + 1

CombNext ==
    \/ Construct
    \/ \E n \in 0..MaxFeed, m \in 0..MaxFeedFds : Feed(n, m)
    \/ Retry

(***************************************************************************)
(* wayne-core/src/server.rs: Server::try_bind, and the same loop in        *)
(* wayne-server/src/socket.rs: WaylandSocket::bind.  What bind_path does   *)
(* to the lockfile and the socket is the model of lock.rs and socket.rs    *)
(* above; here its outcome is what the filesystem of the moment gives.     *)
(***************************************************************************)
\* the io::ErrorKind of a failed bind_path, or "Ok"
Outcomes == {"Ok", "AddrInUse", "WouldBlock", "PermissionDenied", "NotFound"}

\* format!("wayland-{address}")
Name(address) == <<"wayland-", address>>

\* the arm of the match that goes on to the next address
ContinuesOnAddrInUseOnly(kind) == kind = "AddrInUse"

Continues(kind) == kind \in {"AddrInUse", "WouldBlock"}

RangeIdle ==
    /\ tr_env = TRUE
    /\ tr_start = 0
    /\ tr_end = 0
    /\ tr_pc = "idle"
    /\ tr_address = 0
    /\ tr_tried = <<>>
    /\ tr_ret = [tag |-> "none"]

\* the for loop has no address left
AlreadyInUse(start, end) ==
    [tag |-> "Err", kind |-> "AlreadyInUse", start |-> start, end |-> end]

\* entering the for loop over start..=end
EnterLoop(env, start, end) ==
    /\ tr_pc = "idle"
    /\ tr_env' = env
    /\ tr_start' = start
    /\ tr_end' = end
    /\ tr_address' = start
    /\ tr_tried' = <<>>
    /\ IF ~env
       THEN tr_pc' = "done" /\ tr_ret' = [tag |-> "Err", kind |-> "VarError"]
       ELSE IF start > end
       THEN tr_pc' = "done" /\ tr_ret' = AlreadyInUse(start, end)
       ELSE tr_pc' = "loop" /\ tr_ret' = tr_ret
    /\ UNCHANGED notRange

\* Server::try_bind(start).until(end).bind(): end.unwrap_or(start)
try_bind(env, start, end) ==
    EnterLoop(env, start, IF end.some THEN end.value ELSE start)

\* WaylandSocket::bind(max): for index in 0..max
Bind(env, max) == EnterLoop(env, 0, max - 1)

\* one turn of the loop: bind_path of the address ends with kind
BindPath(kind) ==
    /\ tr_pc = "loop"
    /\ tr_tried' = Append(tr_tried, [n |-> tr_address, kind |-> kind])
    /\ IF kind = "Ok"
       THEN /\ tr_ret' = [tag |-> "Ok", socket_name |-> Name(tr_address)]
            /\ tr_pc' = "done"
            /\ UNCHANGED tr_address
       ELSE IF Continues(kind)
       THEN IF tr_address = tr_end
            THEN /\ tr_ret' = AlreadyInUse(tr_start, tr_end)
                 /\ tr_pc' = "done"
                 /\ UNCHANGED tr_address
            ELSE /\ tr_address' = tr_address + 1
                 /\ UNCHANGED <<tr_ret, tr_pc>>
       ELSE /\ tr_ret' = [tag |-> "Err", kind |-> kind]
            /\ tr_pc' = "done"
            /\ UNCHANGED tr_address
    /\ UNCHANGED <<tr_env, tr_start, tr_end>>
    /\ UNCHANGED notRange

RangeNext ==
    \/ \E env \in BOOLEAN, start \in 0..MaxAddress,
          end \in {None} \cup {Some(e) : e \in 0..MaxAddress} :
            try_bind(env, start, end)
    \/ \E env \in BOOLEAN, max \in 0..MaxAddress : Bind(env, max)
    \/ \E kind \in Outcomes : BindPath(kind)

(***************************************************************************)
(* wayne-core/src/socket.rs: Drop for WaylandSocket, and                   *)
(* wayne-core/src/server.rs: Drop for Server, one action per system call.  *)
(* The body of drop runs first, then the fields are dropped in the order   *)
(* the struct declares them.  No return value is looked at.                *)
(***************************************************************************)
TeardownIdle ==
    /\ td_kind = "WaylandSocket"
    /\ td_pc = "idle"
    /\ td_sock_path = "none"
    /\ td_lock_path = "none"
    /\ td_listening = FALSE
    /\ td_sock_fd = FALSE
    /\ td_lock_fd = FALSE
    /\ td_log = <<>>

PathStates == {"none", "ours", "other"}

\* a bound listener of either kind about to be dropped; since it bound them
\* its paths may have been removed, or removed and made again, by others
TeardownInit ==
    /\ td_kind \in {"WaylandSocket", "Server"}
    /\ td_pc = "drop"
    /\ td_sock_path \in PathStates
    /\ td_lock_path \in PathStates
    /\ td_listening = TRUE
    /\ td_sock_fd = TRUE
    /\ td_lock_fd = TRUE
    /\ td_log = <<>>

Logged(step, ok) == Append(td_log, [step |-> step, ok |-> ok])

\* the statement the destructor body of a kind starts with
FirstStatement(kind) ==
    IF kind = "WaylandSocket" THEN "shutdown" ELSE "unlink_sock"

AtStatement(st) ==
    \/ td_pc = st
    \/ td_pc = "drop" /\ FirstStatement(td_kind) = st

\* libc::shutdown(self.sock_fd.as_raw_fd(), libc::SHUT_RDWR)
Shutdown ==
    /\ AtStatement("shutdown")
    /\ td_listening' = FALSE
    /\ td_log' = Logged("shutdown", td_sock_fd)
    /\ td_pc' = "unlink_sock"
    /\ UNCHANGED <<td_kind, td_sock_path, td_lock_path, td_sock_fd, td_lock_fd>>
    /\ UNCHANGED notTeardown

\* libc::unlink(self.sock_path) and fs::remove_file(&self.socket_path)
UnlinkSockPath ==
    /\ AtStatement("unlink_sock")
    /\ td_sock_path' = "none"
    /\ td_log' = Logged("unlink_sock", td_sock_path # "none")
    /\ td_pc' = "unlink_lock"
    /\ UNCHANGED <<td_kind, td_lock_path, td_listening, td_sock_fd, td_lock_fd>>
    /\ UNCHANGED notTeardown

\* libc::unlink(self.lock_path) and fs::remove_file(&self.lock_path)
UnlinkLockPath ==
    /\ AtStatement("unlink_lock")
    /\ td_lock_path' = "none"
    /\ td_log' = Logged("unlink_lock", td_lock_path # "none")
    /\ td_pc' = "close_sock"
    /\ UNCHANGED <<td_kind, td_sock_path, td_listening, td_sock_fd, td_lock_fd>>
    /\ UNCHANGED notTeardown

\* the field sock_fd: OwnedFd, or listener: UnixListener, is dropped
CloseSockFd ==
    /\ AtStatement("close_sock")
    /\ td_sock_fd' = FALSE
    /\ td_listening' = FALSE
    /\ td_log' = Logged("close_sock", td_sock_fd)
    /\ td_pc' = "close_lock"
    /\ UNCHANGED <<td_kind, td_sock_path, td_lock_path, td_lock_fd>>
    /\ UNCHANGED notTeardown

\* the field lock_fd: OwnedFd, or lock_file: File, is dropped
CloseLockFd ==
    /\ AtStatement("close_lock")
    /\ td_lock_fd' = FALSE
    /\ td_log' = Logged("close_lock", td_lock_fd)
    /\ td_pc' = "done"
    /\ UNCHANGED <<td_kind, td_sock_path, td_lock_path, td_listening, td_sock_fd>>
    /\ UNCHANGED notTeardown

\* someone else removes one of the two paths, or makes a file of their own
\* at a free one, while the destructor runs
OtherProcess ==
    /\ td_pc \notin {"idle", "done"}
    /\ \/ /\ td_sock_path' = (IF td_sock_path = "none" THEN "other" ELSE "none")
          /\ UNCHANGED td_lock_path
       \/ /\ td_lock_path' = (IF td_lock_path = "none" THEN "other" ELSE "none")
          /\ UNCHANGED td_sock_path
    /\ UNCHANGED <<td_kind, td_pc, td_listening, td_sock_fd, td_lock_fd, td_log>>
    /\ UNCHANGED notTeardown

TeardownNext ==
    \/ Shutdown
    \/ UnlinkSockPath
    \/ UnlinkLockPath
    \/ CloseSockFd
    \/ CloseLockFd
    \/ OtherProcess

PathIdle ==
    /\ bp_path = <<>>
    /\ bp_ret = [tag |-> "none"]
    /\ bp_bound = None

ListenerIdle == TeardownIdle /\ PathIdle

(***************************************************************************)
(* wayne-core/src/sys.rs: cpath and bind_socket, as socket.rs does inline. *)
(* A path is its bytes; the kernel takes the name of a pathname socket     *)
(* from sun_path up to the first NUL within the address length it is given.*)
(***************************************************************************)
MaxPathLen == 110

\* libc::sockaddr_un { sun_path: [0; 108] }
SunPathLen == 108

\* the paths tried: n bytes, none of them NUL or the one at z
PathOf(n, z) == [i \in 1..n |-> IF i = z THEN 0 ELSE 97]

Paths ==
    UNION {{PathOf(n, z) : z \in {0, 1, 2, n}} : n \in 1..MaxPathLen}

HasNul(bs) == \E i \in DOMAIN bs : bs[i] = 0

\* CString::new: the bytes and a NUL after them, or an error when a NUL is
\* among them
cpath(path) ==
    IF HasNul(path)
    THEN [tag |-> "Err", kind |-> "InvalidData"]
    ELSE [tag |-> "CString", cstr |-> Append(path, 0)]

\* bind_socket with the length check replaced by a cut to the field
path_bytes_cut(cstr) ==
    Some(SubSeq(cstr, 1, Min(Len(cstr), SunPathLen)))

\* the bytes bind_socket copies into sun_path: with the NUL when that fits,
\* else without it, else nothing
path_bytes(cstr) ==
    IF Len(cstr) > SunPathLen
    THEN IF Len(cstr) - 1 > SunPathLen
         THEN None
         ELSE Some(SubSeq(cstr, 1, Len(cstr) - 1))
    ELSE Some(cstr)

\* sun_path after copy_from_slice into the zeroed field
sun_path(bs) ==
    [i \in 1..SunPathLen |-> IF i <= Len(bs) THEN bs[i] ELSE 0]

\* the name the kernel binds for an address of len bytes of sun_path
KernelName(field, len) ==
    LET nuls == {i \in 1..len : field[i] = 0}
        stop == IF nuls = {} THEN len + 1
                ELSE CHOOSE i \in nuls : \A j \in nuls : i <= j
    IN  SubSeq(field, 1, stop - 1)

PathInit ==
    /\ bp_path \in Paths
    /\ bp_ret = [tag |-> "none"]
    /\ bp_bound = None

\* cpath(path)
Cpath ==
    /\ bp_ret.tag = "none"
    /\ bp_ret' = cpath(bp_path)
    /\ UNCHANGED <<bp_path, bp_bound>>
    /\ UNCHANGED notPath

\* bind_socket(&sock_path): the length check, socket and bind; the two
\* system calls can fail for reasons of their own
BindSocketPath ==
    /\ bp_ret.tag = "CString"
    /\ LET copied == path_bytes(bp_ret.cstr)
       IN  IF ~copied.some
           THEN /\ bp_ret' = [tag |-> "Err", kind |-> "ENAMETOOLONG"]
                /\ UNCHANGED bp_bound
           ELSE \/ /\ bp_ret' = [tag |-> "Err", kind |-> "Os"]
                   /\ UNCHANGED bp_bound
                \/ /\ bp_ret' = [tag |-> "Ok"]
                   /\ bp_bound' =
                          Some(KernelName(sun_path(copied.value),
                                          Len(copied.value)))
    /\ UNCHANGED bp_path
    /\ UNCHANGED notPath

PathNext ==
    \/ Cpath
    \/ BindSocketPath

(***************************************************************************)
(* wayne-core/src/client.rs: ClientStream::new.  Threads create streams;   *)
(* the one step of a creation that touches shared state is the fetch_add   *)
(* on the static GENERATOR.                                                *)
(***************************************************************************)
NumThreads == 3

MaxStreams == 4

Threads == 1..NumThreads

IdsIdle ==
    /\ GENERATOR = 0
    /\ cs_pc = [t \in Threads |-> "idle"]
    /\ cs_before = [t \in Threads |-> 0]
    /\ cs_made = <<>>

\* static GENERATOR: AtomicU64 = AtomicU64::new(0), and no call made yet
IdsInit == IdsIdle

\* a load on entry and a store of the sum later, in place of the fetch_add
load_then_store(t) == [ret |-> cs_before[t], stored |-> cs_before[t] + 1]

\* GENERATOR.fetch_add(1, Ordering::Relaxed): the value before, and the
\* value stored, in one step
fetch_add(t) == [ret |-> GENERATOR, stored |-> GENERATOR + 1]

\* a thread calls ClientStream::new; the streams made by now are the ones
\* created before this one
NewCall(t) ==
    /\ cs_pc[t] = "idle"
    /\ Len(cs_made) + Cardinality({u \in Threads : cs_pc[u] = "new"})
           < MaxStreams
    /\ cs_pc' = [cs_pc EXCEPT ![t] = "new"]
    /\ cs_before' = [cs_before EXCEPT ![t] = Len(cs_made)]
    /\ UNCHANGED <<GENERATOR, cs_made>>
    /\ UNCHANGED notIds

\* the struct is built around the id the fetch_add returned
NewReturn(t) ==
    /\ cs_pc[t] = "new"
    /\ GENERATOR' = fetch_add(t).stored
    /\ cs_made' = Append(cs_made, [client_id |-> fetch_add(t).ret,
                                   before |-> cs_before[t], thread |-> t])
    /\ cs_pc' = [cs_pc EXCEPT ![t] = "idle"]
    /\ UNCHANGED cs_before
    /\ UNCHANGED notIds

IdsNext == \E t \in Threads : NewCall(t) \/ NewReturn(t)

(***************************************************************************)
(* wayne-buffer/src/init.rs: InitBuffer                                    *)
(***************************************************************************)
\* the longest raw buffer, and the largest count a caller passes
MaxRaw == 6

MaxCount == 8

BufRet(op, count, before, result) ==
    [op |-> op, count |-> count, before |-> before, result |-> result]

BufIdle ==
    /\ ib_raw_len = 0
    /\ init_len = 0
    /\ ib_ret = BufRet("none", 0, 0, "none")

\* InitBuffer::new(raw)
BufInit ==
    /\ ib_raw_len \in 0..MaxRaw
    /\ init_len = 0
    /\ ib_ret = BufRet("none", 0, 0, "none")

\* get_uninit(_mut)().len()
uninit_len == ib_raw_len - init_len

\* assert!(new_len < self.raw.len())
assert_lt(new_len) == new_len < ib_raw_len

\* InitBuffer::set_init(count): a failed assertion panics and leaves
\* init_len as it was; the buffer is not used after a panic
SetInit(count) ==
    /\ ib_ret.result # "panic"
    /\ IF assert_lt(init_len + count)
       THEN /\ init_len' = init_len + count
            /\ ib_ret' = BufRet("set_init", count, init_len, "ok")
       ELSE /\ init_len' = init_len
            /\ ib_ret' = BufRet("set_init", count, init_len, "panic")
    /\ UNCHANGED <<ib_raw_len, notBuf>>

\* InitBuffer::write(bytes) for bytes of length n: the bytes are copied and
\* their number returned; init_len is not changed
BufWrite(n) ==
    /\ ib_ret.result # "panic"
    /\ ib_ret' = BufRet("write", Min(n, uninit_len), init_len, "ok")
    /\ UNCHANGED <<ib_raw_len, init_len, notBuf>>

\* InitBuffer::consume(count)
BufConsume(count) ==
    /\ ib_ret.result # "panic"
    /\ init_len' = IF count >= init_len THEN 0 ELSE init_len - count
    /\ ib_ret' = BufRet("consume", count, init_len, "ok")
    /\ UNCHANGED <<ib_raw_len, notBuf>>

BufNext ==
    \E count \in 0..MaxCount :
        SetInit(count) \/ BufWrite(count) \/ BufConsume(count)

(***************************************************************************)
(* parse_message on the size field of one header, in the three places it   *)
(* is written: wayne-message/src/lib.rs and wayne-stream/src/lib.rs, which *)
(* are the same text, and wayne-stream/src/buffer/read.rs                  *)
(***************************************************************************)
\* u16::MAX, the largest size field
U16Max == 65535

\* the capacity of the data buffer the sizes are tried in
FramerCap == 65536

FramerCase(framer, profile, size, present) ==
    [framer |-> framer, profile |-> profile, size |-> size, present |-> present]

FramerRet(tag, start, body_len) ==
    [tag |-> tag, data_start |-> start, body_len |-> body_len]

FramerIdle ==
    /\ fr_case = FramerCase("none", "none", 0, 0)
    /\ fr_ret = FramerRet("new", 0, 0)

\* a ReadBuffer with data_start = 0 whose unparsed bytes begin with a header
\* of any size field; either the header alone or a full buffer is present
FramerInit ==
    /\ \E framer \in {"lib.rs", "read.rs"}, profile \in {"debug", "release"},
          size \in 0..U16Max, present \in {8, FramerCap} :
            fr_case = FramerCase(framer, profile, size, present)
    /\ fr_ret = FramerRet("new", 0, 0)

\* message_len + 3 on u16: the build with overflow checks panics, the other
\* wraps
AddU16(a, b, profile) ==
    IF a + b <= U16Max THEN [panic |-> FALSE, value |-> a + b]
    ELSE IF profile = "debug" THEN [panic |-> TRUE, value |-> 0]
    ELSE [panic |-> FALSE, value |-> (a + b) % (U16Max + 1)]

\* &data[8..end] of a slice of len bytes: the length of the body, or a panic
\* when the range is not inside the slice
SliceFrom8(len, end) ==
    IF 8 <= end /\ end <= len THEN [panic |-> FALSE, len |-> end - 8]
    ELSE [panic |-> TRUE, len |-> 0]

\* parse_message of wayne-message/src/lib.rs and wayne-stream/src/lib.rs:
\* the padding is computed on the u16 and then widened
parse_message_u16(size, present, profile) ==
    LET sum == AddU16(Max(size, 8), 3, profile)
        aligned == sum.value - (sum.value % 4)
        body == SliceFrom8(present, aligned)
    IN  IF sum.panic THEN FramerRet("panic", 0, 0)
        ELSE IF present < aligned THEN FramerRet("None", 0, 0)
        ELSE IF body.panic THEN FramerRet("panic", aligned, 0)
        ELSE FramerRet("Some", aligned, body.len)

\* parse_message of wayne-stream/src/buffer/read.rs: the size is widened
\* to usize first
parse_message_usize(size, present) ==
    LET len == Max(size, 8)
        padded_len == Pad4(len)
        body == SliceFrom8(present, len)
    IN  IF present < len THEN FramerRet("None", 0, 0)
        ELSE IF body.panic THEN FramerRet("panic", Min(padded_len, present), 0)
        ELSE FramerRet("Some", Min(padded_len, present), body.len)

\* ReadBuffer::parse_message of lib.rs
FramerParseLib ==
    /\ fr_ret.tag = "new"
    /\ fr_case.framer = "lib.rs"
    /\ fr_ret' = parse_message_u16(fr_case.size, fr_case.present,
                                   fr_case.profile)
    /\ UNCHANGED <<fr_case, notFramer>>

\* ReadBuffer::parse_message of read.rs
FramerParseRead ==
    /\ fr_ret.tag = "new"
    /\ fr_case.framer = "read.rs"
    /\ fr_ret' = parse_message_usize(fr_case.size, fr_case.present)
    /\ UNCHANGED <<fr_case, notFramer>>

FramerNext == FramerParseLib \/ FramerParseRead

MiscIdle == IdsIdle /\ BufIdle /\ FramerIdle

(***************************************************************************)
(* The specifications                                                      *)
(***************************************************************************)
\* no frames on the wire
WireIdle == sent = <<>> /\ wire = <<>>

SpecParserInit == ParserInit /\ ReadIdle /\ StreamIdle /\ LockIdle
    /\ ClientIdle /\ CombIdle /\ RangeIdle /\ ListenerIdle /\ MiscIdle

SpecParser == SpecParserInit /\ [][ParserNext]_vars

SpecReadInit == ReadInit /\ StreamIdle /\ LockIdle
    /\ ClientIdle /\ CombIdle /\ RangeIdle /\ ListenerIdle /\ MiscIdle

SpecRead == SpecReadInit /\ [][ReadNext]_vars

SpecLoopInit == LoopInit /\ StreamIdle /\ LockIdle
    /\ ClientIdle /\ CombIdle /\ RangeIdle /\ ListenerIdle /\ MiscIdle

SpecLoop == SpecLoopInit /\ [][LoopNext]_vars /\ LoopFair

SpecStreamInit ==
    StreamIdle /\ ParserIdle /\ WireIdle /\ ReadIdle /\ LockIdle
    /\ ClientIdle /\ CombIdle /\ RangeIdle /\ ListenerIdle /\ MiscIdle

SpecStream == SpecStreamInit /\ [][StreamNext]_vars

SpecLockInit == LockIdle /\ ParserIdle /\ WireIdle /\ ReadIdle /\ StreamIdle
    /\ ClientIdle /\ CombIdle /\ RangeIdle /\ ListenerIdle /\ MiscIdle

SpecLock == SpecLockInit /\ [][LockNext]_vars

\* a process inside aquire goes on to its next system call: none of them
\* blocks
LockFair ==
    \A p \in Procs :
        /\ WF_vars(AquireOpen(p))
        /\ WF_vars(AquireFlock(p))
        /\ WF_vars(AquireVerify(p))

SpecLockFair == SpecLockInit /\ [][LockNext]_vars /\ LockFair

SpecBind == SpecLockInit /\ [][BindNext]_vars

SpecClientInit ==
    ClientInit /\ ParserIdle /\ WireIdle /\ ReadIdle /\ StreamIdle /\ LockIdle
    /\ CombIdle /\ RangeIdle /\ ListenerIdle /\ MiscIdle

SpecClient == SpecClientInit /\ [][ClientNext]_vars

SpecCombinatorsInit ==
    CombInit /\ ParserIdle /\ WireIdle /\ ReadIdle /\ StreamIdle /\ LockIdle
    /\ ClientIdle /\ RangeIdle /\ ListenerIdle /\ MiscIdle

SpecCombinators == SpecCombinatorsInit /\ [][CombNext]_vars

SpecRangeInit ==
    RangeIdle /\ ParserIdle /\ WireIdle /\ ReadIdle /\ StreamIdle /\ LockIdle
    /\ ClientIdle /\ CombIdle /\ ListenerIdle /\ MiscIdle

SpecRange == SpecRangeInit /\ [][RangeNext]_vars

OthersIdleButMisc ==
    ParserIdle /\ WireIdle /\ ReadIdle /\ StreamIdle /\ LockIdle /\ ClientIdle
    /\ CombIdle /\ RangeIdle

OthersIdle ==
    ParserIdle /\ WireIdle /\ ReadIdle /\ StreamIdle /\ LockIdle /\ ClientIdle
    /\ CombIdle /\ RangeIdle /\ MiscIdle

SpecIdsInit ==
    IdsInit /\ BufIdle /\ FramerIdle /\ OthersIdleButMisc /\ ListenerIdle

SpecBufInit ==
    BufInit /\ IdsIdle /\ FramerIdle /\ OthersIdleButMisc /\ ListenerIdle

SpecFramerInit ==
    FramerInit /\ IdsIdle /\ BufIdle /\ OthersIdleButMisc /\ ListenerIdle

SpecFramer == SpecFramerInit /\ [][FramerNext]_vars

SpecBuf == SpecBufInit /\ [][BufNext]_vars

SpecIds == SpecIdsInit /\ [][IdsNext]_vars

SpecTeardownInit == TeardownInit /\ PathIdle /\ OthersIdle

SpecTeardown == SpecTeardownInit /\ [][TeardownNext]_vars

SpecExactInit ==
    ExactInit /\ ParserIdle /\ WireIdle /\ ReadIdle /\ StreamIdle /\ LockIdle
    /\ ClientIdle /\ RangeIdle /\ ListenerIdle /\ MiscIdle

SpecExact == SpecExactInit /\ [][CombNext]_vars

SpecPadInit ==
    PadInit /\ ParserIdle /\ WireIdle /\ ReadIdle /\ StreamIdle /\ LockIdle
    /\ ClientIdle /\ RangeIdle /\ ListenerIdle /\ MiscIdle

SpecPad == SpecPadInit /\ [][CombNext]_vars

SpecDecodersInit ==
    DecodersInit /\ ParserIdle /\ WireIdle /\ ReadIdle /\ StreamIdle /\ LockIdle
    /\ ClientIdle /\ RangeIdle /\ ListenerIdle /\ MiscIdle

SpecDecoders == SpecDecodersInit /\ [][CombNext]_vars

SpecPathInit == PathInit /\ TeardownIdle /\ OthersIdle

SpecPath == SpecPathInit /\ [][PathNext]_vars

(***************************************************************************)
(* Claims about the framer of message.rs                                   *)
(***************************************************************************)
\* the parser has been given every byte and every stream was run to its end
ParserDone == ~streaming /\ wire = <<>>

\* the wire offset at which frame i of the client ends (padding included)
RECURSIVE FrameEnd(_)
FrameEnd(i) == IF i = 0 THEN 0 ELSE FrameEnd(i - 1) + PaddedLen(sent[i])

GotMessages == [i \in 1..Len(got) |-> got[i].message]

SentMessages == [i \in 1..Len(sent) |-> MessageOf(sent[i])]

\* C1: framing round-trip. Once every chunk of the encoded frames has been
\* parsed and every MessageStream exhausted, the messages yielded are exactly
\* the frames sent, in order, each once, with equal object_id, opcode and body.
C1_RoundTrip == ParserDone => GotMessages = SentMessages

\* C2: framer resumption. When every parse call is given a single byte, then
\* after each call the messages yielded so far are exactly the frames whose
\* last (padding) byte has been supplied, and each was yielded by the call
\* that supplied that byte; header-only frames included.
C2_Resumption ==
    (drip /\ ~streaming) =>
        /\ Len(got) = Cardinality({i \in 1..Len(sent) : FrameEnd(i) <= fed})
        /\ \A i \in 1..Len(got) : got[i].at = FrameEnd(i)

(***************************************************************************)
(* Claims about the ReadBuffer of read.rs                                  *)
(***************************************************************************)
\* the descriptors parse_fd can still return from the control buffer
PendingFds == DrainFds(ctrl_buf, ctrl_start, ctrl_end)

IsPrefix(s, t) == Len(s) <= Len(t) /\ s = SubSeq(t, 1, Len(s))

Range(s) == {s[i] : i \in DOMAIN s}

\* C3: parse_message returns None and leaves data_start and data_end alone
\* whenever fewer than padded = (max(size,8)+3)&~3 bytes are unparsed; it
\* returns a message only when all padded bytes are there, and then advances
\* data_start by exactly padded.
C3_ParsePartial ==
    [][ParseMessage =>
        LET present == data_end - data_start
            padded == IF present >= 8 THEN Pad4(message_len(Window)) ELSE 8
        IN  IF present < padded
            THEN /\ ret'.value = "None"
                 /\ data_start' = data_start
                 /\ data_end' = data_end
            ELSE /\ ret'.value = "Some"
                 /\ data_start' = data_start + padded]_vars

\* C7: the descriptors parse_fd hands out are the descriptors the successful
\* receives delivered, in delivery order, and parse_fd returns None only when
\* every delivered descriptor has been handed out.
C7_FdDelivery ==
    /\ IsPrefix(handed, received)
    /\ (ret.op = "parse_fd" /\ ret.value = "None") => handed = received

\* C9: dropping the ReadBuffer closes exactly the descriptors that were
\* received and not handed to the caller.
C9_NoFdLeak == dropped => Range(closed) = Range(received) \ Range(handed)

\* C10: a read_from_stream during which recvmsg set MSG_CTRUNC returns an
\* error, and makes no byte and no descriptor of that receive available:
\* the unparsed bytes and the descriptors parse_fd can return are as before.
C10_TruncatedControl ==
    [][(ReadFromStream /\ ret'.ctrunc) =>
        /\ ret'.value = "Err"
        /\ Window' = Window
        /\ PendingFds' = PendingFds
        /\ handed' = handed]_vars

\* a receive was truncated: the client passed more descriptors than fit
C10_Witness ==
    /\ ret.op = "read_from_stream"
    /\ ret.ctrunc
    /\ ret.value = "Err"
    /\ truncated # <<>>

(***************************************************************************)
(* Claims about the Fds iterator of stream.rs                              *)
(***************************************************************************)
\* the descriptors of the SCM_RIGHTS records, in payload order
RECURSIVE RightsFds(_)
RightsFds(recs) ==
    IF recs = <<>> THEN <<>>
    ELSE (IF recs[1].cmsg_type = SCM_RIGHTS THEN recs[1].fds ELSE <<>>)
         \o RightsFds(Tail(recs))

\* C8: once the iterator over the control records of a receive is exhausted,
\* it has handed out every descriptor of every SCM_RIGHTS record, in payload
\* order, none skipped.
C8_AllRecordFds ==
    (rd_res = "Ok" /\ fds_ret = "None") => fds_out = RightsFds(rd_ctrl)

(***************************************************************************)
(* Claims about the advisory lock of lock.rs                               *)
(***************************************************************************)
\* the processes that hold a handle aquire returned and have not begun to
\* release it
Holders == {p \in Procs : pc[p] = "held"}

\* the call of p ends in this step
AquireEnds(p) == pc[p] \in {"flock", "stat"} /\ pc'[p] \in {"idle", "held"}

\* C4: at most one process holds a handle of the lock; a call that ends
\* while another process holds the handle ends with WouldBlock, at its
\* flock, without waiting; and a call made after the handle was dropped,
\* with no other process contending, gets the lock at its first attempt.
C4_LockExclusive ==
    /\ [](Cardinality(Holders) <= 1)
    /\ [][\A p \in Procs :
            /\ (AquireEnds(p) /\ Holders \ {p} # {}) =>
                   (pc[p] = "flock" /\ pc'[p] = "idle"
                    /\ last'[p] = "WouldBlock")
            /\ (solo = p /\ pc[p] = "flock" /\ pc'[p] # "flock") =>
                   pc'[p] = "stat"
            /\ (solo = p /\ pc[p] = "stat" /\ pc'[p] # "stat") =>
                   (pc'[p] = "held" /\ last'[p] = "Ok")]_vars

\* the call of one process has ended, with a handle it has dropped by now
\* or with WouldBlock, and the other process then took the lock in a call
\* that ran with nobody contending
C4_Witness ==
    \E p \in Procs, q \in Procs :
        /\ p # q
        /\ pc[p] = "held"
        /\ solo = p
        /\ pc[q] = "idle"
        /\ last[q] \in {"Ok", "WouldBlock"}

Live == {p \in Procs : pc[p] = "live"}

\* C6: bind unlinks the file at the socket path only while it holds the
\* lock, so the socket file of a live listener stays at the socket path
\* whatever other processes' binds do, and at most one listener is live.
C6_ServerExclusion ==
    /\ \A p \in Live : sock_owner = p
    /\ Cardinality(Live) <= 1

(***************************************************************************)
(* Claims about ClientStream::receive of client.rs                         *)
(***************************************************************************)
\* C11: a receive whose recvmsg carried an SCM_CREDENTIALS control record
\* fails; it is never reported as successful.
C11_CredentialsRejected == cl_creds => cl_ret = "Err"

(***************************************************************************)
(* Claims about the parser combinators and the generated decoders          *)
(***************************************************************************)
\* the closures a then was given, and the parsers behind a Builder
IsContinuation(e) == e[1] \in {"arg", "array_len", "array_pad", "pass", "builder"}

NoDup(s) == \A i, j \in 1..Len(s) : s[i] = s[j] => i = j

\* the arguments of the request the driver decodes
CaseArgs == Interface[cb_case.opcode + 1]

\* the arguments a request decoder has decoded so far
Decoded ==
    Len(SelectSeq(cb_applied, LAMBDA e : e[1] \in {"arg", "builder"}))

\* what the encoding of the first d arguments takes from each buffer
Prefix(d) ==
    EncodeArgs(SubSeq(CaseArgs, 1, Min(d, Len(CaseArgs))),
               SubSeq(cb_case.vals, 1, Min(d, Len(CaseArgs))))

TakenBytes == Len(cb_case.bytes) - Len(cb_in_bytes) - Len(cb_bytes)

TakenFds == Len(cb_case.fds) - Len(cb_in_fds) - Len(cb_fds)

\* C12: once the first half of a then has returned Done no later parse call
\* runs it or the continuation again, and a request decoder resumed after
\* Incomplete goes on from its first unfinished argument: no continuation
\* and no argument parser completes twice, and what the decoder has taken
\* from the buffers is the encoding of the arguments it has decoded plus no
\* more than the encoding of the next one.
C12_Resumption ==
    /\ NoDup(SelectSeq(cb_applied, IsContinuation))
    /\ (cb_case.law = "request" /\ cb_factory.some) =>
          /\ Len(Prefix(Decoded).bytes) <= TakenBytes
          /\ TakenBytes <= Len(Prefix(Decoded + 1).bytes)
          /\ Len(Prefix(Decoded).fds) <= TakenFds
          /\ TakenFds <= Len(Prefix(Decoded + 1).fds)
          /\ cb_result.tag = "Done" =>
                Decoded = Len(CaseArgs) /\ cb_bytes = <<>> /\ cb_fds = <<>>

\* a chain of two arguments was left Incomplete between them, resumed, and
\* came to Done
C12_Witness ==
    /\ cb_case.law = "request"
    /\ cb_case.ver = "then"
    /\ cb_factory.some
    /\ Len(CaseArgs) = 2
    /\ cb_calls >= 3
    /\ cb_result.tag = "Done"

\* the driver has handed over the whole input, a chunk with each call
AllFed ==
    /\ cb_factory.some
    /\ cb_calls >= 1
    /\ cb_retries = 0
    /\ cb_in_bytes = <<>>
    /\ cb_in_fds = <<>>

\* one parse call on the parser as built, with the whole input in the buffers
Whole == ParseP(cb_factory.value, cb_case.bytes, cb_case.fds)

\* C13: however the input is cut into chunks, calling the parser on each
\* chunk in turn ends with the outcome, and leaves in the buffers the bytes
\* and fds, that one call on the whole input gives.
C13_ChunkInvariance ==
    AllFed =>
        /\ cb_result.tag = Whole.tag
        /\ cb_result.tag = "Done" => cb_result.out = Whole.out
        /\ cb_bytes = Whole.bytes
        /\ cb_fds = Whole.fds

\* C14: one parse call on then(p, |v| Pass::new(v)) returns what one parse
\* call on p returns on the same buffers, Done with the same value,
\* Incomplete or Failed, and takes the same bytes and fds.
C14_ThenPass ==
    (cb_case.law = "then_pass" /\ cb_calls = 1) =>
        /\ cb_result.tag = cb_tresult.tag
        /\ cb_result.tag = "Done" => cb_result.out = cb_tresult.out
        /\ cb_bytes = cb_tbytes
        /\ cb_fds = cb_tfds

\* the twin of a case returned Done with this option
TwinDone(some_) ==
    IF cb_tresult.tag = "Done" THEN cb_tresult.out.some = some_ ELSE FALSE

\* C15: some(p) returns Done(v) exactly when p returns Done(Some(v)),
\* Failed exactly when p returns Done(None) or Failed, and Incomplete,
\* around the parser p returned, exactly when p returns Incomplete; both
\* take the same bytes and fds.
C15_Some ==
    (cb_case.law = "some" /\ cb_calls >= 1) =>
        /\ cb_result.tag = "Done" <=> TwinDone(TRUE)
        /\ cb_result.tag = "Failed" <=>
                (TwinDone(FALSE) \/ cb_tresult.tag = "Failed")
        /\ cb_result.tag = "Incomplete" <=> cb_tresult.tag = "Incomplete"
        /\ cb_result.tag = "Done" => cb_result.out = cb_tresult.out.value
        /\ cb_result.tag = "Incomplete" => cb_parser = some(cb_twin)
        /\ cb_bytes = cb_tbytes
        /\ cb_fds = cb_tfds

\* a some was left Incomplete, resumed, and returned the value in the option
C15_Witness ==
    /\ cb_case.law = "some"
    /\ cb_calls >= 2
    /\ cb_result.tag = "Done"

\* some(pass(None)) has failed
C15_WitnessNone ==
    /\ cb_case.law = "some"
    /\ cb_result.tag = "Failed"
    /\ TwinDone(FALSE)

\* C16: map(map(p, f), g) and map(p, g after f) return the same outcome
\* and take the same input however the input is split, and f and g are
\* each applied once, f first, when p is Done and not at all before.
C16_MapComposition ==
    (cb_case.law = "map" /\ cb_calls >= 1) =>
        /\ cb_result.tag = cb_tresult.tag
        /\ cb_result.tag = "Done" => cb_result.out = cb_tresult.out
        /\ cb_bytes = cb_tbytes
        /\ cb_fds = cb_tfds
        /\ cb_applied = cb_tapplied
        /\ cb_applied = IF cb_result.tag = "Done"
                        THEN Tags(cb_case.twin.map.h)
                             \o Tags(cb_case.twin.map.g)
                        ELSE <<>>

\* a map of a map was left Incomplete, resumed, and returned g of f of the
\* value
C16_Witness ==
    /\ cb_case.law = "map"
    /\ cb_case.bytes = <<1, 2>>
    /\ cb_calls >= 2
    /\ cb_result.tag = "Done"
    /\ cb_result.out = Apply(cb_case.twin.map.g,
                             Apply(cb_case.twin.map.h, <<1, 2>>))

\* every argument tagged with an enum was encoded with one of its entries
ValidEnums ==
    \A i \in 1..Len(CaseArgs) :
        CaseArgs[i].enum_kind.some =>
            cb_case.vals[i] \in CaseArgs[i].enum_kind.value

\* the field a decoder of the generator ver holds for the argument value v
Field(ver, arg, v) ==
    IF ver = "builder" /\ arg.enum_kind.some THEN RawEnum(arg, v) ELSE v

\* one more parse call on what the buffers hold
Again == ParseP(cb_parser, cb_bytes, cb_fds)

C17_WitnessBuilder ==
    /\ cb_case.law = "request"
    /\ cb_case.ver = "builder"
    /\ cb_case.opcode = 0
    /\ cb_calls >= 2
    /\ cb_result.tag = "Done"
    /\ cb_result.out.request.fields[2] = 7

\* the entry a decoded field of an argument tagged with an enum stands for
Entry(ver, x) == IF ver = "builder" THEN build(x) ELSE Some(x)

\* C18: an int or uint argument tagged with an enum decodes to the entry
\* whose declared value is the 32-bit value on the wire, and a wire value
\* that is no entry's (any negative one for an int argument) makes the
\* request decoder return Failed, not Done and not Incomplete, once it has
\* read the value.
C18_EnumDecoding ==
    ( /\ cb_case.law = "request"
      /\ cb_factory.some
      /\ CaseArgs[1].enum_kind.some
      /\ TakenBytes >= 4 ) =>
        IF cb_case.vals[1] \in CaseArgs[1].enum_kind.value
        THEN /\ cb_result.tag # "Failed"
             /\ cb_result.tag = "Done" =>
                    Entry(cb_case.ver, cb_result.out.request.fields[1])
                        = Some(cb_case.vals[1])
        ELSE cb_result.tag = "Failed"

\* the decoder of a request as the generator ver writes it
DecoderOf(ver, args) ==
    IF ver = "then" THEN arg_parser(args, <<>>) ELSE RequestParser(args)

\* C19: for an interface of n requests the decoder factory returns for
\* opcode i below n the decoder of the i-th request in XML order, which
\* decodes to the i-th variant, and returns none for every opcode from n on.
C19_OpcodeFactory ==
    (cb_case.law = "request" /\ cb_result # Unbuilt) =>
        IF cb_case.opcode < Len(Interface)
        THEN /\ cb_factory.some
             /\ cb_factory.value =
                    map(DecoderOf(cb_case.ver, Interface[cb_case.opcode + 1]),
                        [f |-> "variant", i |-> cb_case.opcode])
             /\ cb_result.tag = "Done" =>
                    cb_result.out.variant = cb_case.opcode
        ELSE ~cb_factory.some

\* the factory was asked for the last opcode of the interface and its
\* decoder has decoded the last request
C19_Witness ==
    /\ cb_case.law = "request"
    /\ cb_case.opcode = Len(Interface) - 1
    /\ cb_result.tag = "Done"
    /\ cb_result.out.variant = cb_case.opcode

\* the factory was asked for an opcode past the requests
C19_WitnessNone ==
    /\ cb_case.law = "request"
    /\ cb_result = NoResult
    /\ cb_case.opcode = Len(Interface)
    /\ ~cb_factory.some

(***************************************************************************)
(* Claims about the range bind of server.rs                                *)
(***************************************************************************)
\* C20: try_range(start, end) is decided by the first N of start..=end
\* whose bind_path ends neither AddrInUse nor WouldBlock: the numbers are
\* tried upwards from start, none after that N; when that N succeeded the
\* listener named wayland-N is returned, when it failed its error is; and
\* when every N ended AddrInUse or WouldBlock the call fails AlreadyInUse.
C20_TryRange ==
    (tr_pc # "idle" /\ tr_env) =>
        LET len == Len(tr_tried)
            decided == IF len = 0 THEN FALSE
                       ELSE tr_tried[len].kind \notin {"AddrInUse", "WouldBlock"}
        IN  /\ \A i \in 1..len : tr_tried[i].n = tr_start + i - 1
            /\ \A i \in 1..(len - 1) :
                    tr_tried[i].kind \in {"AddrInUse", "WouldBlock"}
            /\ len <= Max(0, tr_end - tr_start + 1)
            /\ tr_pc = "done" <=>
                    (decided \/ len = Max(0, tr_end - tr_start + 1))
            /\ tr_pc = "done" =>
                  IF ~decided
                  THEN tr_ret = [tag |-> "Err", kind |-> "AlreadyInUse",
                                 start |-> tr_start, end |-> tr_end]
                  ELSE IF tr_tried[len].kind = "Ok"
                  THEN tr_ret = [tag |-> "Ok",
                                 socket_name |-> <<"wayland-", tr_tried[len].n>>]
                  ELSE tr_ret = [tag |-> "Err", kind |-> tr_tried[len].kind]

\* try_range(0, 2) found wayland-0 in use and returned the listener
\* wayland-1
C20_Witness ==
    /\ tr_env
    /\ tr_start = 0
    /\ tr_end = 2
    /\ tr_tried = <<[n |-> 0, kind |-> "AddrInUse"], [n |-> 1, kind |-> "Ok"]>>
    /\ tr_ret = [tag |-> "Ok", socket_name |-> <<"wayland-", 1>>]

C22_BodyExact ==
    \A i \in 1..Len(got) :
        sent[i].size >= 8 =>
            /\ got[i].message.body = sent[i].body
            /\ Len(got[i].message.body) = sent[i].size - 8

\* the control records that lie in the control buffer from offset s on
RECURSIVE RecordsFrom(_, _)
RecordsFrom(buf, s) ==
    IF CtrlCap - s < CmsgHdrSize THEN <<>>
    ELSE IF buf[s].cmsg_len < CmsgHdrSize THEN <<>>
    ELSE <<buf[s]>> \o RecordsFrom(buf, s + cmsg_align(buf[s].cmsg_len))

\* the control records received and not yet passed by parse_fd
UnparsedCtrl == RecordsFrom(ctrl_buf, ctrl_start)

\* C23: a read_from_stream whose recvmsg reports WouldBlock returns "no new
\* data" and leaves the unparsed data bytes and the unparsed control records
\* as they were.
C23_WouldBlockFrame ==
    [][(ReadFromStream /\ sock = <<>>) =>
        /\ ret'.value = "Ok(false)"
        /\ Window' = Window
        /\ UnparsedCtrl' = UnparsedCtrl]_vars

\* C30: framer index invariant, 0 <= data_start <= data_end <= capacity of
\* the data buffer, in every state read_from_stream and parse_message reach.
C30_IndexInvariant ==
    /\ 0 <= data_start
    /\ data_start <= data_end
    /\ data_end <= Len(data_buf)

\* parse_message returned a message whose padding had not all arrived: the
\* new data_start was held at data_end
C30_Witness ==
    /\ ret.op = "parse_message"
    /\ ret.value = "Some"
    /\ data_start = data_end
    /\ data_start % 4 # 0

\* the data buffer is full
C30_WitnessFull == data_end = DataCap /\ data_start = 0

(***************************************************************************)
(* Claims about the listener of socket.rs and server.rs                    *)
(***************************************************************************)
\* the place of a system call in the log of the destructor, 0 when it has
\* not been made
Pos(step) ==
    IF \E i \in DOMAIN td_log : td_log[i].step = step
    THEN CHOOSE i \in DOMAIN td_log : td_log[i].step = step
    ELSE 0

\* b has not been made, or a was made before it
Before(a, b) == Pos(b) # 0 => (Pos(a) # 0 /\ Pos(a) < Pos(b))

\* a bind call of process p has returned an error
BindFailed(p) == pc[p] = "idle" /\ last[p] \notin {"none", "Ok"}

\* C25: a failed bind leaves no partial state. Once bind has returned an
\* error, whatever the step that failed, no socket file made by that call is
\* at the socket path and no descriptor opened by that call is still open.
C25_NoPartialState ==
    \A p \in Procs : BindFailed(p) => (sock_owner # p /\ lock_fd[p] = 0)

\* C24: listener teardown order. On drop the listening socket is shut down,
\* then the socket path is unlinked, then the lock path is unlinked, and the
\* lockfile descriptor is closed only after both unlinks; a step that fails
\* does not stop the later ones, so a finished drop has made all of them.
C24_TeardownOrder ==
    /\ Before("shutdown", "unlink_sock")
    /\ Before("unlink_sock", "unlink_lock")
    /\ Before("unlink_lock", "close_lock")
    /\ td_pc = "done" =>
          /\ \A st \in {"shutdown", "unlink_sock", "unlink_lock", "close_lock"} :
                Pos(st) # 0
          /\ ~td_listening /\ ~td_sock_fd /\ ~td_lock_fd

\* C26: bind fails, and binds no socket, when the requested path holds a NUL
\* byte or is longer than the 108 bytes of the name field of the socket
\* address; a socket that is bound is bound to the whole path, never to a
\* prefix of it.
C26_BadPathNotBound ==
    /\ bp_bound.some => bp_bound.value = bp_path
    /\ (bp_ret.tag \in {"Ok", "Err"}
        /\ (HasNul(bp_path) \/ Len(bp_path) > SunPathLen)) =>
          (bp_ret.tag = "Err" /\ bp_bound = None)

\* a path of 109 bytes without a NUL has been refused
C26_Witness ==
    /\ Len(bp_path) = SunPathLen + 1
    /\ ~HasNul(bp_path)
    /\ bp_ret = [tag |-> "Err", kind |-> "ENAMETOOLONG"]
    /\ bp_bound = None

\* a path with a NUL in the middle has been refused
C26_WitnessNul ==
    /\ \E i \in 2..(Len(bp_path) - 1) : bp_path[i] = 0
    /\ bp_ret = [tag |-> "Err", kind |-> "InvalidData"]
    /\ bp_bound = None

\* a path of exactly 108 bytes has been bound whole
C26_WitnessFull ==
    /\ Len(bp_path) = SunPathLen
    /\ bp_ret.tag = "Ok"
    /\ bp_bound = Some(bp_path)

(***************************************************************************)
(* Claims about the generated decoders of single arguments                 *)
(***************************************************************************)
\* the argument of the decoder case and the value the client encoded
DecArg == cb_case.arg

DecVal == cb_case.vals[1]

\* a decoder case is run and the decoder of this generator has returned
ThenDone == cb_case.law = "decoder" /\ cb_result.tag = "Done"

BuilderDone == cb_case.law = "decoder" /\ cb_tresult.tag = "Done"

\* the one field of the request each decoder returned
ThenField == cb_result.out.fields[1]

BuilderField == cb_tresult.out.fields[1]

\* the bytes each decoder has taken from its buffer
ThenConsumed == Len(cb_case.bytes) - Len(cb_in_bytes) - Len(cb_bytes)

BuilderConsumed == Len(cb_case.bytes) - Len(cb_in_bytes) - Len(cb_tbytes)

\* the optional the specification gives a nullable argument
Optional(val, decoded) == IF Len(val) = 0 THEN None ELSE Some(decoded)

\* C27: a string or array argument marked nullable decodes to None when its
\* length word is 0 and to Some(value) otherwise, the value being what the
\* decoder of the type yields.
C27_NullableDecoding ==
    /\ (ThenDone /\ DecArg.allow_null /\ DecArg.ty = "string") =>
          ThenField = Optional(DecVal, Utf8Lossy(DecVal))
    /\ (BuilderDone /\ DecArg.allow_null) =>
          BuilderField =
              Optional(DecVal,
                       IF DecArg.ty = "string"
                       THEN RawString([boxed |-> DecVal])
                       ELSE [boxed |-> DecVal])

\* the bytes a new_id argument takes on the wire
NewIdLen == IF DecArg.interface.some THEN 4 ELSE Len(cb_case.bytes) - Len(Trailer)

\* C28: a new_id argument declared without an interface is decoded by
\* consuming a string (the interface name), a u32 version and a u32 id, in
\* this order, and a new_id with a fixed interface consumes exactly 4 bytes.
C28_NewIdDecoding ==
    /\ (ThenDone /\ DecArg.ty = "new_id") => ThenConsumed = NewIdLen
    /\ (BuilderDone /\ DecArg.ty = "new_id") =>
          /\ BuilderConsumed = NewIdLen
          /\ ~DecArg.interface.some =>
                BuilderField = [name |-> RawString([boxed |-> DecVal.name]),
                                version |-> DecVal.version,
                                value |-> DecVal.value]

\* the numbers x.mant / 2^x.frac and y.mant / 2^y.frac are the same
SameNumber(x, y) ==
    x.mant * Pow(2, y.frac - Min(x.frac, y.frac))
        = y.mant * Pow(2, x.frac - Min(x.frac, y.frac))

\* C29: a fixed argument whose 32-bit signed wire value is b decodes to the
\* number b / 256, for every b.
C29_FixedDecoding ==
    /\ (ThenDone /\ DecArg.ty = "fixed") =>
          SameNumber(ThenField, [mant |-> DecVal, frac |-> 8])
    /\ (BuilderDone /\ DecArg.ty = "fixed") =>
          SameNumber(BuilderField, [mant |-> DecVal, frac |-> 8])

\* C29 for the decoder of wayne-protocol-macros alone
C29_ThenOnly ==
    (ThenDone /\ DecArg.ty = "fixed") =>
        SameNumber(ThenField, [mant |-> DecVal, frac |-> 8])

\* C28 for the decoder of wayne-macros alone
C28_BuilderOnly ==
    (BuilderDone /\ DecArg.ty = "new_id") =>
        /\ BuilderConsumed = NewIdLen
        /\ ~DecArg.interface.some =>
              BuilderField = [name |-> RawString([boxed |-> DecVal.name]),
                              version |-> DecVal.version,
                              value |-> DecVal.value]

(***************************************************************************)
(* Claims about the ids of client streams                                  *)
(***************************************************************************)
\* C31: ClientIds are unique and increasing. Any two streams created, by one
\* thread or by several at once, have distinct ids, and a stream whose
\* creation began after another was made has the larger id.
C31_ClientIds ==
    \A i, j \in DOMAIN cs_made :
        /\ i # j => cs_made[i].client_id # cs_made[j].client_id
        /\ i <= cs_made[j].before =>
              cs_made[i].client_id < cs_made[j].client_id

\* two threads were inside ClientStream::new at once, and a third stream
\* was created after both
C31_Witness ==
    /\ Len(cs_made) >= 3
    /\ cs_made[2].before = 0
    /\ cs_made[1].thread # cs_made[2].thread
    /\ cs_made[3].before = 2

\* the n of the pad(p, n) of a pad case
PadTo == cb_case.parser.pad + 1

\* the smallest multiple of n that is at least c
RoundUp(c, n) == ((c + n - 1) \div n) * n

InnerDone == <<"inner_done", 0>> \in Range(cb_applied)

\* C32: for every n >= 1, pad(p, n) that has returned has consumed, over all
\* its calls, the smallest multiple of n that is at least the number of
\* bytes p consumes, and returns the output of p.
C32_PadConsumes ==
    (cb_case.law = "pad" /\ cb_result.tag = "Done") =>
        /\ cb_tresult.tag = "Done"
        /\ ThenConsumed = RoundUp(BuilderConsumed, PadTo)
        /\ cb_result.out = cb_tresult.out

\* C33: when p has completed and pad(p, n) has returned Incomplete for want
\* of padding bytes, the call that finds the padding returns the output of
\* p, does not run p again and consumes no byte past the padding.
C33_PadPreserves ==
    [][(/\ cb_case.law = "pad"
        /\ InnerDone
        /\ cb_result.tag = "Incomplete"
        /\ cb_result'.tag = "Done")
       => /\ cb_applied' = cb_applied
          /\ cb_result'.out = cb_tresult.out
          /\ ThenConsumed' <= RoundUp(BuilderConsumed, PadTo)]_vars

\* the bytes of the encoding of the argument of an exact case
ExactLen ==
    CASE DecArg.ty \in {"int", "uint", "object", "new_id", "fixed"} -> 4
      [] DecArg.ty \in {"string", "array"} -> 4 + Pad4(Len(DecVal))
      [] DecArg.ty = "fd" -> 0

\* the fds of the encoding
ExactFds == IF DecArg.ty = "fd" THEN 1 ELSE 0

\* the fds each decoder has taken from its buffer
ThenFdsConsumed == Len(cb_case.fds) - Len(cb_in_fds) - Len(cb_fds)

BuilderFdsConsumed == Len(cb_case.fds) - Len(cb_in_fds) - Len(cb_tfds)

\* C34: a decoder that returns Done has taken exactly the bytes of its
\* encoding (4 for int, uint, object, new_id with an interface and fixed,
\* 4 + L rounded up to a multiple of 4 for string and array, 0 for fd) and
\* one fd for an fd argument, none else; what follows is still in the
\* buffers.
C34_ExactConsumption ==
    /\ (cb_case.law = "exact" /\ cb_result.tag = "Done") =>
          /\ ThenConsumed = ExactLen
          /\ ThenFdsConsumed = ExactFds
          /\ cb_bytes \o cb_in_bytes = Trailer
          /\ cb_fds \o cb_in_fds = TrailerFds
    /\ (cb_case.law = "exact" /\ cb_tresult.tag = "Done") =>
          /\ BuilderConsumed = ExactLen
          /\ BuilderFdsConsumed = ExactFds
          /\ cb_tbytes \o cb_in_bytes = Trailer
          /\ cb_tfds \o cb_in_fds = TrailerFds

\* every byte and fd has arrived and both decoders of an array of two bytes
\* have returned
C34_Witness ==
    /\ cb_case.law = "exact" /\ DecArg.ty = "array" /\ DecVal = <<1, 2>>
    /\ cb_result.tag = "Done" /\ cb_tresult.tag = "Done"
    /\ cb_in_bytes = <<>> /\ cb_in_fds = <<>>
    /\ cb_calls >= 3

\* both decoders of an fd have returned, the fd after it still to come
C34_WitnessFd ==
    /\ cb_case.law = "exact" /\ DecArg.ty = "fd"
    /\ cb_result.tag = "Done" /\ cb_tresult.tag = "Done"
    /\ cb_in_fds = TrailerFds

\* C35: each descriptor the kernel delivered is made into an owned fd at
\* most once, also when ReadData::fds is called more than once on the result
\* of one receive.
C35_UniqueOwnership == \A d \in DOMAIN fds_owned : fds_owned[d] <= 1

\* a call of ClientStream::receive
ReceiveCall ==
    \/ \E n \in 1..MaxChunk, shape \in RecordShapes : ClientReceive(n, shape)
    \/ ClientReceiveWouldBlock
    \/ ClientReceiveEof

\* C36: receive returns Ok(true) only if the call received a data byte or a
\* file descriptor; when recvmsg returns 0 bytes and no control data it
\* returns Ok(false).
C36_ReceiveTrue ==
    [][ReceiveCall =>
        (cl_ret' = "Ok(true)" =>
            (Len(cl_wire') < Len(cl_wire) \/ cl_next' > cl_next))]_vars

\* C37: set_init(count) succeeds and grows init_len by count for every
\* count that is at most the length of the uninitialized section, count
\* equal to it included, and panics only when count is greater; init_len
\* never exceeds the length of the buffer.
C37_SetInit ==
    /\ init_len <= ib_raw_len
    /\ ib_ret.op = "set_init" =>
          IF ib_ret.count <= ib_raw_len - ib_ret.before
          THEN ib_ret.result = "ok" /\ init_len = ib_ret.before + ib_ret.count
          ELSE ib_ret.result = "panic"

\* C38: for every size field 0..65535 the framer consumes
\* (max(size,8)+3)&~3 bytes of a buffer that holds them, a multiple of 4 in
\* 8..65536 that is at least the size; parse_message never panics, the
\* sizes 65533..65535 included, and the body it returns is the bytes from 8
\* to the size.
C38_WideArithmetic ==
    /\ fr_ret.tag # "panic"
    /\ (fr_ret.tag = "Some" /\ fr_case.present = FramerCap) =>
          /\ fr_ret.data_start = Pad4(Max(fr_case.size, 8))
          /\ fr_ret.data_start % 4 = 0
          /\ fr_ret.data_start \in 8..65536
          /\ fr_ret.data_start >= fr_case.size
          /\ fr_ret.body_len = Max(fr_case.size, 8) - 8
    /\ fr_ret.tag = "None" => fr_case.present < Pad4(Max(fr_case.size, 8))

\* C38 for the framer of read.rs alone
C38_ReadRsOnly == fr_case.framer = "read.rs" => C38_WideArithmetic

\* parse_message has just returned the i-th frame the client sent
Delivered(i) ==
    /\ i \in DOMAIN sent
    /\ ret.op = "parse_message"
    /\ ret.value = "Some"
    /\ ret.item.value = MessageOf(sent[i])

\* every frame the client sends fits the data buffer
AllFit == \A i \in DOMAIN sent : PaddedLen(sent[i]) <= DataCap

\* the loop can do nothing more: the buffer is full from its first byte, no
\* message is parsed from it and no byte is read into it
Stalled ==
    /\ data_start = 0
    /\ data_end = DataCap
    /\ ret.value \in {"Ok(false)", "None"}

\* C39: for a client that keeps sending frames that fit the buffer, the
\* loop of read_from_stream and parse_message eventually delivers every
\* frame.
C39_Progress ==
    \A i \in 1..MaxLoopFrames :
        <>((AllFit /\ i \in DOMAIN sent) => Delivered(i))

\* the first frame does not fit the data buffer
FirstOversize == PaddedLen(sent[1]) > DataCap

StalledIfOversize == FirstOversize => Stalled

\* C39, its second half: a first frame whose padded size exceeds the
\* capacity leads to a full buffer on which read_from_stream returns
\* Ok(false) and parse_message None for ever, no error reported.
C39_OversizeStalls == <>[]StalledIfOversize

\* p is inside the loop of aquire
InCall(p) == pc[p] \in {"open", "flock", "stat"}

\* the call of p is about to open the lockfile with no file of an earlier
\* turn open
ClosedBeforeOpen ==
    \A p \in Procs : pc[p] = "open" => (lock_fd[p] = 0 /\ ~locked[p])

\* a turn starts over only when the path no longer leads to the file the
\* turn opened, and a flock that finds the lock taken ends the call
RestartsOnlyOnChange ==
    \A p \in Procs :
        /\ (pc[p] = "stat" /\ pc'[p] = "open") => lock_ino # lock_fd[p]
        /\ (pc[p] = "flock" /\ FlockBusy(p) /\ pc'[p] # "flock") =>
              (pc'[p] = "idle" /\ last'[p] = "WouldBlock")

\* the path is unlinked or created
PathEvent == lock_ino' # lock_ino

\* C40: aquire never blocks and terminates: a turn of its loop opens, takes
\* the flock without waiting, stats, and returns or starts over; it starts
\* over only when the path vanished or leads to another inode than the one
\* the turn opened, with the file of the turn closed before the next open;
\* and when the path is unlinked and created only finitely often every call
\* returns.
C40_AquireTerminates ==
    /\ []ClosedBeforeOpen
    /\ [][RestartsOnlyOnChange]_vars
    /\ \/ []<><<PathEvent>>_vars
       \/ \A p \in Procs : InCall(p) ~> ~InCall(p)

\* a call has started over after its path was unlinked and is about to open
\* again
C40_Witness ==
    \E p \in Procs :
        /\ pc[p] = "open"
        /\ last[p] = "continue"
        /\ lock_ino = 0

====
